---- MODULE Spec2Model ----
(***************************************************************************)
(* Verification model of the HubSpot multi-threading score app.            *)
(*                                                                         *)
(* The alert service (alertService.js) is the only component with mutable  *)
(* shared state; it is modelled as a state machine of concurrent           *)
(* sendAlerts invocations over the alertHistory map (SpecAlert).  The      *)
(* scoring, risk, lifecycle and role-inference services are pure           *)
(* functions; each is an operator, applied by one action to an input that  *)
(* Init draws from a bounded set (SpecScore, SpecRisk, SpecLifecycle,      *)
(* SpecRole).                                                              *)
(***************************************************************************)
EXTENDS Integers, Sequences, FiniteSets, TLC

VARIABLES
  alertHistory,   \* alertService: Map key -> last-sent Date.now() (0: no entry)
  now,            \* Date.now(), in milliseconds
  procs,          \* the sendAlerts invocations in flight
  posted,         \* the messages the Slack webhook has accepted
  call,           \* the pure function being applied, with its arguments
  ret             \* its return value (NoRet before it returns)

vars == <<alertHistory, now, procs, posted, call, ret>>

NoRet == [op |-> "pending"]
NoCall == [op |-> "none"]

(***************************************************************************)
(* Bounds of the model.                                                    *)
(***************************************************************************)
\* the clock advances in steps of TickMinutes minutes, MaxTicks times
TickMinutes == 360
MaxTicks == 2
\* length of the alert list one sendAlerts call receives
MaxAlerts == 1

(***************************************************************************)
(* Helpers.                                                                *)
(***************************************************************************)
Min(a, b) == IF a <= b THEN a ELSE b
Max(a, b) == IF a >= b THEN a ELSE b

\* Math.round(num / den) for num >= 0, den > 0: to nearest, ties upwards
RoundDiv(num, den) == (2 * num + den) \div (2 * den)

\* all sequences over S of length 0..n
SeqsUpTo(S, n) == UNION {[1..k -> S] : k \in 0..n}

(***************************************************************************)
(* alertService.js                                                         *)
(***************************************************************************)
\* ALERT_CONFIGS[type].throttleMinutes
ALERT_CONFIGS ==
  [SINGLE_THREADED      |-> 1440,
   NO_NEW_CONTACTS      |-> 720,
   CHAMPION_DISENGAGED  |-> 480,
   DM_NOT_ENGAGED       |-> 720,
   SCORE_DROPPED        |-> 480,
   COVERAGE_GAP         |-> 1440,
   STAKEHOLDER_INACTIVE |-> 1440]

\* ALERT_CONFIGS[alertType] || { throttleMinutes: 60 }, times 60 * 1000
ThrottleMs(alertType) ==
  (IF alertType \in DOMAIN ALERT_CONFIGS THEN ALERT_CONFIGS[alertType] ELSE 60)
    * 60 * 1000

\* deal ids as HubSpot issues them (numeric strings), and the alert types used
Deals == {"101", "102"}
AlertTypes == {"CHAMPION_DISENGAGED", "DM_NOT_ENGAGED"}
\* the alerts the calls are given: two types of one deal, one type of two deals
AlertPool ==
  {a \in [dealId : Deals, type : AlertTypes] :
     a.dealId = "101" \/ a.type = "CHAMPION_DISENGAGED"}

\* `${dealId}-${alertType}`
AlertKeyNoDeal(dealId, alertType) == "-" \o alertType
AlertKey(dealId, alertType) == dealId \o "-" \o alertType

\* one key per deal and alert type: the configured types, and the lifecycle
\* tracker's CHAMPION_COOLING, which has no configuration
Keys == {AlertKey(d, t) : d \in Deals, t \in DOMAIN ALERT_CONFIGS \cup {"CHAMPION_COOLING"}}

\* shouldThrottle with the key still throttled at the end of the cool-down
shouldThrottleAtCooldown(dealId, alertType) ==
  LET lastSent == alertHistory[AlertKey(dealId, alertType)]
  IN  IF lastSent = 0 THEN FALSE
      ELSE (now - lastSent) <= ThrottleMs(alertType)
\* shouldThrottle(dealId, alertType), read at the current instant
shouldThrottleNoConfig(dealId, alertType) ==
  LET lastSent == alertHistory[AlertKey(dealId, alertType)]
  IN  IF lastSent = 0 THEN FALSE
      ELSE (now - lastSent) < 60 * 60 * 1000
shouldThrottle(dealId, alertType) ==
  LET lastSent == alertHistory[AlertKey(dealId, alertType)]
  IN  IF lastSent = 0 THEN FALSE
      ELSE (now - lastSent) < ThrottleMs(alertType)

\* recordAlertSent that sets nothing
recordAlertSentNowhere(dealId, alertType) == alertHistory
\* recordAlertSent(dealId, alertType): the map after alertHistory.set(key, Date.now())
recordAlertSent(dealId, alertType) ==
  [alertHistory EXCEPT ![AlertKey(dealId, alertType)] = now]

EmptyResults == [sent |-> <<>>, failed |-> <<>>, throttled |-> <<>>]

IdleProc ==
  [pc |-> "idle", alerts |-> <<>>, i |-> 1, webhook |-> FALSE, email |-> FALSE,
   ok |-> FALSE, results |-> EmptyResults]

Procs == {"req1", "req2"}

Entry(alert, channel) == [type |-> alert.type, dealId |-> alert.dealId, channel |-> channel]

\* the email branch of one loop iteration (sendAlerts, lines 417-421)
WithEmail(pr, alert) ==
  IF pr.email
    THEN [pr EXCEPT !.results.sent = Append(@, Entry(alert, "email"))]
    ELSE pr

\* sendAlerts' for loop from alert pr.i on, run until it suspends at the Slack
\* POST (pc "post") or returns (pc "done"); no await lies in between
RECURSIVE RunLoop(_)
RunLoop(pr) ==
  IF pr.i > Len(pr.alerts) THEN [pr EXCEPT !.pc = "done"]
  ELSE LET alert == pr.alerts[pr.i] IN
    IF shouldThrottle(alert.dealId, alert.type)
      THEN RunLoop([pr EXCEPT !.results.throttled = Append(@, Entry(alert, "none")),
                              !.i = @ + 1])
    ELSE IF pr.webhook
      THEN [pr EXCEPT !.pc = "post"]
    ELSE RunLoop([WithEmail(pr, alert) EXCEPT !.i = @ + 1])

\* sendAlerts(alerts, { slackWebhookUrl, emailEnabled }) is called
SendAlertsCall(p) ==
  /\ procs[p].pc = "idle"
  /\ \E alerts \in SeqsUpTo(AlertPool, MaxAlerts), webhook \in BOOLEAN, email \in BOOLEAN :
       procs' = [procs EXCEPT ![p] =
                   RunLoop([IdleProc EXCEPT !.alerts = alerts, !.webhook = webhook,
                                            !.email = email])]
  /\ UNCHANGED <<alertHistory, now, posted, call, ret>>

\* sendSlackAlert: axios.post resolves; the send is recorded and the function returns
AxiosPostResolves(p) ==
  /\ procs[p].pc = "post"
  /\ LET alert == procs[p].alerts[procs[p].i] IN
       /\ alertHistory' = recordAlertSent(alert.dealId, alert.type)
       /\ posted' = posted \cup
            {[dealId |-> alert.dealId, type |-> alert.type, at |-> now,
              by |-> p, idx |-> procs[p].i]}
  /\ procs' = [procs EXCEPT ![p].pc = "resume", ![p].ok = TRUE]
  /\ UNCHANGED <<now, call, ret>>

\* a rejected POST that records the send all the same
AxiosPostRejectsRecorded(p) ==
  /\ procs[p].pc = "post"
  /\ alertHistory' = recordAlertSent(procs[p].alerts[procs[p].i].dealId,
                                     procs[p].alerts[procs[p].i].type)
  /\ procs' = [procs EXCEPT ![p].pc = "resume", ![p].ok = FALSE]
  /\ UNCHANGED <<now, posted, call, ret>>
\* sendSlackAlert: axios.post rejects; the catch block returns success: false
AxiosPostRejects(p) ==
  /\ procs[p].pc = "post"
  /\ procs' = [procs EXCEPT ![p].pc = "resume", ![p].ok = FALSE]
  /\ UNCHANGED <<alertHistory, now, posted, call, ret>>

\* sendAlerts resumes after `await sendSlackAlert(...)` and runs on
SendAlertsResume(p) ==
  /\ procs[p].pc = "resume"
  /\ LET pr == procs[p]
         alert == pr.alerts[pr.i]
         slack == IF pr.ok
                    THEN [pr EXCEPT !.results.sent = Append(@, Entry(alert, "slack"))]
                    ELSE [pr EXCEPT !.results.failed = Append(@, Entry(alert, "slack"))]
     IN  procs' = [procs EXCEPT ![p] = RunLoop([WithEmail(slack, alert) EXCEPT !.i = @ + 1])]
  /\ UNCHANGED <<alertHistory, now, posted, call, ret>>

\* time passes
Tick ==
  /\ now < (MaxTicks + 1) * TickMinutes * 60 * 1000
  /\ now' = now + TickMinutes * 60 * 1000
  /\ UNCHANGED <<alertHistory, procs, posted, call, ret>>

InitAlert ==
  /\ alertHistory = [k \in Keys |-> 0]
  /\ now = TickMinutes * 60 * 1000
  /\ procs = [p \in Procs |-> IdleProc]
  /\ posted = {}
  /\ call = NoCall
  /\ ret = NoRet

NextAlert ==
  \/ \E p \in Procs : SendAlertsCall(p)
  \/ \E p \in Procs : AxiosPostResolves(p)
  \/ \E p \in Procs : AxiosPostRejects(p)
  \/ \E p \in Procs : SendAlertsResume(p)
  \/ Tick

SpecAlert == InitAlert /\ [][NextAlert]_vars

(***************************************************************************)
(* hubspotService.js: the contact records the scoring engine is given.     *)
(***************************************************************************)
\* getContactEngagements: the counters of one contact; total is their sum
getContactEngagements(emails, meetings, calls) ==
  [emails |-> emails, meetings |-> meetings, calls |-> calls,
   total |-> emails + meetings + calls]

\* getContactWithEngagement: { id, properties, engagements }
\* (hs_buying_role "" stands for a contact without the property)
Contact(id, role, counts) ==
  [id |-> id,
   properties |-> [hs_buying_role |-> role],
   engagements |-> getContactEngagements(counts[1], counts[2], counts[3])]

\* String.prototype.toUpperCase on the role strings that occur
ToUpperCase(str) ==
  CASE str = "champion"       -> "CHAMPION"
    [] str = "decision_maker" -> "DECISION_MAKER"
    [] str = "other"          -> "OTHER"
    [] str = "Not specified"  -> "NOT SPECIFIED"
    [] OTHER                  -> str

(***************************************************************************)
(* scoringService.js                                                       *)
(***************************************************************************)
BUYING_ROLE_WEIGHTS ==
  "DECISION_MAKER" :> 30 @@ "BUDGET_HOLDER" :> 25 @@ "CHAMPION" :> 20 @@
  "INFLUENCER" :> 15 @@ "END_USER" :> 10 @@ "BLOCKER" :> 5 @@ "OTHER" :> 5

\* KEY_ROLES without the champion
KEY_ROLESWithoutChampion == <<"DECISION_MAKER", "BUDGET_HOLDER">>
KEY_ROLES == <<"DECISION_MAKER", "BUDGET_HOLDER", "CHAMPION">>

RECURSIVE SumSeq(_)
SumSeq(seq) == IF seq = <<>> THEN 0 ELSE Head(seq) + SumSeq(Tail(seq))

Range(seq) == {seq[i] : i \in DOMAIN seq}

\* Array.from(new Set(seq)): the distinct elements in order of first occurrence
RECURSIVE Distinct(_)
Distinct(seq) ==
  IF seq = <<>> THEN <<>>
  ELSE LET front == Distinct(SubSeq(seq, 1, Len(seq) - 1))
           last == seq[Len(seq)]
       IN  IF last \in Range(front) THEN front ELSE Append(front, last)

\* calculateContactEngagementScore with emails counted 25 points each
calculateContactEngagementScoreEmailHeavy(engagements) ==
  LET meetingPoints == Min(engagements.meetings * 20, 40)
      callPoints == Min(engagements.calls * 15, 30)
      emailPoints == Min(engagements.emails * 25, 30)
  IN  Min(meetingPoints + callPoints + emailPoints, 100)

\* calculateContactEngagementScore(engagements)
calculateContactEngagementScore(engagements) ==
  LET meetingPoints == Min(engagements.meetings * 20, 40)
      callPoints == Min(engagements.calls * 15, 30)
      emailPoints == Min(engagements.emails * 5, 30)
  IN  Min(meetingPoints + callPoints + emailPoints, 100)

\* calculateParticipationScore(contacts):
\* Math.min(Math.round(rate * 60 + volumeBonus), 100), rate = active / length
calculateParticipationScore(contacts) ==
  IF Len(contacts) = 0 THEN 0
  ELSE LET IsActive(c) == c.engagements.total >= 2
           active == Len(SelectSeq(contacts, IsActive))
           volumeBonus == Min(active * 10, 40)
       IN  Min(RoundDiv(active * 60 + volumeBonus * Len(contacts), Len(contacts)), 100)

\* contact.properties?.hs_buying_role?.toUpperCase() || 'OTHER'
RoleOf(contact) ==
  IF contact.properties.hs_buying_role = "" THEN "OTHER"
  ELSE ToUpperCase(contact.properties.hs_buying_role)

RoleWeight(role) ==
  IF role \in DOMAIN BUYING_ROLE_WEIGHTS THEN BUYING_ROLE_WEIGHTS[role]
  ELSE BUYING_ROLE_WEIGHTS["OTHER"]

\* calculateRoleCoverageScore with every contact read as role OTHER
calculateRoleCoverageScoreNoRoles(contacts) ==
  LET coveredRoles == Distinct([i \in DOMAIN contacts |-> "OTHER"])
      IsMissing(role) == role \notin Range(coveredRoles)
      missingKeyRoles == SelectSeq(KEY_ROLES, IsMissing)
      diversityBonus == Min(Len(coveredRoles) * 10, 30)
  IN  [score |-> Min(RoundDiv((Len(KEY_ROLES) - Len(missingKeyRoles)) * 70
                                + diversityBonus * Len(KEY_ROLES), Len(KEY_ROLES)), 100),
       coveredRoles |-> coveredRoles,
       missingKeyRoles |-> missingKeyRoles,
       rolePoints |-> Len(contacts) * BUYING_ROLE_WEIGHTS["OTHER"]]

\* calculateRoleCoverageScore(contacts):
\* keyCoverage = (covered key roles / 3) * 100,
\* score = Math.min(Math.round(keyCoverage * 0.7 + diversityBonus), 100)
calculateRoleCoverageScore(contacts) ==
  LET roles == [i \in DOMAIN contacts |-> RoleOf(contacts[i])]
      coveredRoles == Distinct(roles)
      IsMissing(role) == role \notin Range(coveredRoles)
      missingKeyRoles == SelectSeq(KEY_ROLES, IsMissing)
      diversityBonus == Min(Len(coveredRoles) * 10, 30)
  IN  [score |-> Min(RoundDiv((Len(KEY_ROLES) - Len(missingKeyRoles)) * 70
                                + diversityBonus * Len(KEY_ROLES), Len(KEY_ROLES)), 100),
       coveredRoles |-> coveredRoles,
       missingKeyRoles |-> missingKeyRoles,
       rolePoints |-> SumSeq([i \in DOMAIN roles |-> RoleWeight(roles[i])])]

\* the bonus at twice its size
threadDepthBonusTwenty(threadDepth) == Min(threadDepth * 20, 20)
\* Math.min(threadDepth * 10, 10)
threadDepthBonusUncapped(threadDepth) == threadDepth * 10
threadDepthBonus(threadDepth) == Min(threadDepth * 10, 10)

\* the risk band with LOW starting above 70
riskLevelOfLowAbove70(overallScore) ==
  IF overallScore > 70 THEN "LOW"
  ELSE IF overallScore >= 40 THEN "MEDIUM"
  ELSE "HIGH"

\* the risk band of an overall score
riskLevelOf(overallScore) ==
  IF overallScore >= 70 THEN "LOW"
  ELSE IF overallScore >= 40 THEN "MEDIUM"
  ELSE "HIGH"

\* calculateMultiThreadingScore({ contacts }).  The overall score is
\* Math.round(avg * 0.30 + participation * 0.25 + roleCoverage * 0.35 + bonus);
\* on every combination of sub-scores the three functions above can return,
\* the IEEE-754 evaluation rounds as the exact value does.
calculateMultiThreadingScore(contacts) ==
  LET contactEngagementScores ==
        [i \in DOMAIN contacts |->
           [contactId |-> contacts[i].id,
            email |-> "N/A",
            role |-> IF contacts[i].properties.hs_buying_role = "" THEN "Not specified"
                     ELSE contacts[i].properties.hs_buying_role,
            engagementScore |-> calculateContactEngagementScore(contacts[i].engagements),
            engagements |-> contacts[i].engagements]]
      avgEngagementScore ==
        IF Len(contacts) > 0
          THEN RoundDiv(SumSeq([i \in DOMAIN contacts |->
                                  contactEngagementScores[i].engagementScore]),
                        Len(contacts))
          ELSE 0
      participationScore == calculateParticipationScore(contacts)
      roleCoverage == calculateRoleCoverageScore(contacts)
      IsEngaged(c) == c.engagements.total > 0
      threadDepth == Len(SelectSeq(contacts, IsEngaged))
      overallScore ==
        RoundDiv(avgEngagementScore * 30 + participationScore * 25
                   + roleCoverage.score * 35 + threadDepthBonus(threadDepth) * 100, 100)
  IN  [op |-> "snapshot",
       overallScore |-> overallScore,
       engagementScore |-> avgEngagementScore,
       participationScore |-> participationScore,
       roleCoverageScore |-> roleCoverage.score,
       contactCount |-> Len(contacts),
       threadDepth |-> threadDepth,
       riskLevel |-> riskLevelOf(overallScore),
       coveredRoles |-> roleCoverage.coveredRoles,
       missingKeyRoles |-> roleCoverage.missingKeyRoles,
       contacts |-> contactEngagementScores]

\* bound of the contact lists scored
MaxContacts == 2

\* the buying roles and engagement counters <<emails, meetings, calls>> of the
\* contacts scored: none, below and at the channel caps, above every cap
ScoredRoles == {"", "DECISION_MAKER", "BUDGET_HOLDER", "CHAMPION", "champion"}
EngagementProfiles == {<<0, 0, 0>>, <<1, 0, 0>>, <<2, 2, 0>>, <<4, 2, 0>>, <<7, 3, 3>>}

ContactId(i) == ToString(200 + i)

ContactLists ==
  UNION {{[i \in 1..n |-> Contact(ContactId(i), roles[i], counts[i])] :
            roles \in [1..n -> ScoredRoles], counts \in [1..n -> EngagementProfiles]} :
         n \in 0..MaxContacts}

\* a decision maker, a budget holder, a champion and an end user, in any
\* order, each with at least 2 meetings and 4 emails
FourRoles == {"DECISION_MAKER", "BUDGET_HOLDER", "CHAMPION", "END_USER"}
WellEngagedProfiles == {<<4, 2, 0>>, <<5, 2, 1>>, <<7, 3, 3>>}
WellThreadedLists ==
  {[i \in 1..4 |-> Contact(ContactId(i), roles[i], counts[i])] :
     roles \in {r \in [1..4 -> FourRoles] : \A i, j \in 1..4 : r[i] = r[j] => i = j},
     counts \in [1..4 -> WellEngagedProfiles]}

InitScore ==
  /\ alertHistory = [k \in Keys |-> 0]
  /\ now = TickMinutes * 60 * 1000
  /\ procs = [p \in Procs |-> IdleProc]
  /\ posted = {}
  /\ call \in {[op |-> "calculateMultiThreadingScore", contacts |-> cs] :
                 cs \in ContactLists \cup WellThreadedLists}
  /\ ret = NoRet

CalculateMultiThreadingScore ==
  /\ call.op = "calculateMultiThreadingScore"
  /\ ret = NoRet
  /\ ret' = calculateMultiThreadingScore(call.contacts)
  /\ UNCHANGED <<alertHistory, now, procs, posted, call>>

NextScore == CalculateMultiThreadingScore

SpecScore == InitScore /\ [][NextScore]_vars

\* Array.prototype.sort by priorityOrder with the order of equal items reversed
sortRecommendationsTiesReversed(items) ==
  LET IsHigh(a) == a.priority = "HIGH"
      IsMedium(a) == a.priority = "MEDIUM"
      IsLow(a) == a.priority = "LOW"
      Rev(q) == [i \in DOMAIN q |-> q[Len(q) + 1 - i]]
  IN  Rev(SelectSeq(items, IsHigh)) \o Rev(SelectSeq(items, IsMedium))
        \o Rev(SelectSeq(items, IsLow))

\* recommendations.sort by priorityOrder { HIGH: 0, MEDIUM: 1, LOW: 2 }
\* (Array.prototype.sort is stable)
sortRecommendations(items) ==
  LET IsHigh(a) == a.priority = "HIGH"
      IsMedium(a) == a.priority = "MEDIUM"
      IsLow(a) == a.priority = "LOW"
  IN  SelectSeq(items, IsHigh) \o SelectSeq(items, IsMedium) \o SelectSeq(items, IsLow)

\* generateRecommendations(scoreData): the items by priority and type
generateRecommendations(scoreData) ==
  LET IsLowEngagement(c) == c.engagementScore < 30
      lowEngagementContacts == SelectSeq(scoreData.contacts, IsLowEngagement)
      recommendations ==
        (IF scoreData.contactCount <= 1
           THEN <<[priority |-> "HIGH", type |-> "SINGLE_THREAD_RISK"]>> ELSE <<>>)
        \o (IF Len(scoreData.missingKeyRoles) > 0
              THEN <<[priority |-> "HIGH", type |-> "MISSING_ROLES"]>> ELSE <<>>)
        \o (IF Len(lowEngagementContacts) > 0
              THEN <<[priority |-> "MEDIUM", type |-> "LOW_ENGAGEMENT"]>> ELSE <<>>)
        \o (IF "CHAMPION" \notin Range(scoreData.coveredRoles)
              THEN <<[priority |-> "MEDIUM", type |-> "NO_CHAMPION"]>> ELSE <<>>)
        \o (IF scoreData.overallScore >= 70 /\ scoreData.contactCount >= 3
              THEN <<[priority |-> "LOW", type |-> "STRONG_POSITION"]>> ELSE <<>>)
        \o (IF scoreData.overallScore < 40
              THEN <<[priority |-> "HIGH", type |-> "CRITICAL_COVERAGE"]>> ELSE <<>>)
  IN  sortRecommendations(recommendations)

\* bound of the engagement counters scored one by one
MaxCount == 7
\* bound of the contact lists whose role coverage is scored
MaxRoleContacts == 3

CoverageRoles == {"", "DECISION_MAKER", "BUDGET_HOLDER", "CHAMPION", "champion", "INFLUENCER"}

RoleContactLists ==
  {[i \in DOMAIN l |-> Contact(ContactId(i), l[i], <<1, 0, 0>>)] :
     l \in SeqsUpTo(CoverageRoles, MaxRoleContacts)}

EngagementCounters ==
  {getContactEngagements(e, m, c) : e \in 0..MaxCount, m \in 0..MaxCount, c \in 0..MaxCount}

ScoreFunctionCalls ==
  {[op |-> "generateRecommendations", scoreData |-> calculateMultiThreadingScore(cs)] :
     cs \in ContactLists \cup WellThreadedLists}
  \cup {[op |-> "calculateRoleCoverageScore", contacts |-> cs] :
          cs \in RoleContactLists \cup WellThreadedLists}
  \cup {[op |-> "calculateContactEngagementScore", engagements |-> e] :
          e \in EngagementCounters}

InitScoreFunctions ==
  /\ alertHistory = [k \in Keys |-> 0]
  /\ now = TickMinutes * 60 * 1000
  /\ procs = [p \in Procs |-> IdleProc]
  /\ posted = {}
  /\ call \in ScoreFunctionCalls
  /\ ret = NoRet

GenerateRecommendations ==
  /\ call.op = "generateRecommendations"
  /\ ret = NoRet
  /\ ret' = [op |-> "returned", value |-> generateRecommendations(call.scoreData)]
  /\ UNCHANGED <<alertHistory, now, procs, posted, call>>

CalculateRoleCoverageScore ==
  /\ call.op = "calculateRoleCoverageScore"
  /\ ret = NoRet
  /\ ret' = [op |-> "returned", value |-> calculateRoleCoverageScore(call.contacts)]
  /\ UNCHANGED <<alertHistory, now, procs, posted, call>>

CalculateContactEngagementScore ==
  /\ call.op = "calculateContactEngagementScore"
  /\ ret = NoRet
  /\ ret' = [op |-> "returned", value |-> calculateContactEngagementScore(call.engagements)]
  /\ UNCHANGED <<alertHistory, now, procs, posted, call>>

NextScoreFunctions ==
  \/ GenerateRecommendations
  \/ CalculateRoleCoverageScore
  \/ CalculateContactEngagementScore

SpecScoreFunctions == InitScoreFunctions /\ [][NextScoreFunctions]_vars

(***************************************************************************)
(* coverageAnalysisService.js: trackStakeholderLifecycle                   *)
(***************************************************************************)
\* contact.contactId || contact.id || contact.email || null  ("" is null)
getContactId(contact) ==
  IF contact.contactId # "" THEN contact.contactId
  ELSE IF contact.id # "" THEN contact.id
  ELSE contact.email

\* new Map(contacts.filter(c => getContactId(c) !== null).map(c => [id, c])):
\* the keys in insertion order, and the value kept for a key (the last one set)
MapKeys(contacts) ==
  LET HasId(c) == getContactId(c) # ""
      valid == SelectSeq(contacts, HasId)
  IN  Distinct([i \in DOMAIN valid |-> getContactId(valid[i])])

MapGet(contacts, contactId) ==
  LET Named(c) == getContactId(c) = contactId
      hits == SelectSeq(contacts, Named)
  IN  hits[Len(hits)]

\* (contact.role || contact.effectiveRole || '').toUpperCase()
EffectiveRoleOf(contact) ==
  ToUpperCase(IF contact.role # "" THEN contact.role ELSE contact.effectiveRole)

\* contact.role || contact.effectiveRole
ReportedRoleOf(contact) ==
  IF contact.role # "" THEN contact.role ELSE contact.effectiveRole

RECURSIVE FlattenSeq(_)
FlattenSeq(seqs) == IF seqs = <<>> THEN <<>> ELSE Head(seqs) \o FlattenSeq(Tail(seqs))

\* the first loop with a change of exactly 20 points left unreported
contactChangesBeyondTwenty(contactId, currentContacts, previousContacts) ==
  LET currentContact == MapGet(currentContacts, contactId)
  IN  IF contactId \notin Range(MapKeys(previousContacts))
        THEN [changes |-> <<[type |-> "NEW_STAKEHOLDER", contactId |-> contactId,
                             role |-> ReportedRoleOf(currentContact)]>>,
              alerts |-> <<>>]
      ELSE
        LET previousContact == MapGet(previousContacts, contactId)
            currentEngagement == currentContact.engagementScore
            previousEngagement == previousContact.engagementScore
            engagementChange == currentEngagement - previousEngagement
            role == EffectiveRoleOf(currentContact)
            Change(type) ==
              [type |-> type, contactId |-> contactId,
               role |-> ReportedRoleOf(currentContact),
               previousScore |-> previousEngagement,
               currentScore |-> currentEngagement,
               change |-> engagementChange]
        IN  IF engagementChange < -20
              THEN [changes |-> <<Change("ENGAGEMENT_DECREASED")>>,
                    alerts |->
                      IF role = "CHAMPION"
                        THEN <<[priority |-> "HIGH", type |-> "CHAMPION_COOLING",
                                contactId |-> contactId]>>
                      ELSE IF role = "DECISION_MAKER" /\ currentEngagement < 30
                        THEN <<[priority |-> "HIGH", type |-> "DM_DISENGAGED",
                                contactId |-> contactId]>>
                      ELSE <<>>]
            ELSE IF engagementChange > 20
              THEN [changes |-> <<Change("ENGAGEMENT_INCREASED")>>,
                    alerts |->
                      IF role = "BUDGET_HOLDER"
                        THEN <<[priority |-> "MEDIUM", type |-> "BUDGET_HOLDER_ENGAGED",
                                contactId |-> contactId]>>
                      ELSE <<>>]
            ELSE [changes |-> <<>>, alerts |-> <<>>]

\* the first loop, for one entry of currentMap: its changes and its alerts
contactChanges(contactId, currentContacts, previousContacts) ==
  LET currentContact == MapGet(currentContacts, contactId)
  IN  IF contactId \notin Range(MapKeys(previousContacts))
        THEN [changes |-> <<[type |-> "NEW_STAKEHOLDER", contactId |-> contactId,
                             role |-> ReportedRoleOf(currentContact)]>>,
              alerts |-> <<>>]
      ELSE
        LET previousContact == MapGet(previousContacts, contactId)
            currentEngagement == currentContact.engagementScore
            previousEngagement == previousContact.engagementScore
            engagementChange == currentEngagement - previousEngagement
            role == EffectiveRoleOf(currentContact)
            Change(type) ==
              [type |-> type, contactId |-> contactId,
               role |-> ReportedRoleOf(currentContact),
               previousScore |-> previousEngagement,
               currentScore |-> currentEngagement,
               change |-> engagementChange]
        IN  IF engagementChange <= -20
              THEN [changes |-> <<Change("ENGAGEMENT_DECREASED")>>,
                    alerts |->
                      IF role = "CHAMPION"
                        THEN <<[priority |-> "HIGH", type |-> "CHAMPION_COOLING",
                                contactId |-> contactId]>>
                      ELSE IF role = "DECISION_MAKER" /\ currentEngagement < 30
                        THEN <<[priority |-> "HIGH", type |-> "DM_DISENGAGED",
                                contactId |-> contactId]>>
                      ELSE <<>>]
            ELSE IF engagementChange >= 20
              THEN [changes |-> <<Change("ENGAGEMENT_INCREASED")>>,
                    alerts |->
                      IF role = "BUDGET_HOLDER"
                        THEN <<[priority |-> "MEDIUM", type |-> "BUDGET_HOLDER_ENGAGED",
                                contactId |-> contactId]>>
                      ELSE <<>>]
            ELSE [changes |-> <<>>, alerts |-> <<>>]

\* the second loop with the membership test made on the contact records
\* instead of on the map keys
removedStakeholdersByRecord(currentContacts, previousContacts) ==
  LET keys == MapKeys(previousContacts)
      Gone(contactId) == MapGet(previousContacts, contactId) \notin Range(currentContacts)
      gone == SelectSeq(keys, Gone)
  IN  [i \in DOMAIN gone |->
         [type |-> "STAKEHOLDER_REMOVED", contactId |-> gone[i],
          role |-> ReportedRoleOf(MapGet(previousContacts, gone[i]))]]

\* the second loop: the entries of previousMap whose key currentMap lacks
removedStakeholders(currentContacts, previousContacts) ==
  LET keys == MapKeys(previousContacts)
      Gone(contactId) == contactId \notin Range(MapKeys(currentContacts))
      gone == SelectSeq(keys, Gone)
  IN  [i \in DOMAIN gone |->
         [type |-> "STAKEHOLDER_REMOVED", contactId |-> gone[i],
          role |-> ReportedRoleOf(MapGet(previousContacts, gone[i]))]]

\* the third loop, for one contact of the current list; daysSince is
\* Math.floor((now - lastEngagementDate) / one day), -1 without a date
inactivityAlerts(contact) ==
  IF contact.daysSince < 0 THEN <<>>
  ELSE IF EffectiveRoleOf(contact) = "DECISION_MAKER" /\ contact.daysSince >= 14
    THEN <<[priority |-> "HIGH", type |-> "DM_INACTIVE", contactId |-> getContactId(contact)]>>
  ELSE IF EffectiveRoleOf(contact) = "CHAMPION" /\ contact.daysSince >= 9
    THEN <<[priority |-> "MEDIUM", type |-> "CHAMPION_INACTIVE",
            contactId |-> getContactId(contact)]>>
  ELSE <<>>

Abs(n) == IF n < 0 THEN -n ELSE n

\* alerts.sort by priorityOrder { HIGH: 0, MEDIUM: 1, LOW: 2 } (a stable sort)
sortByPriority(items) ==
  LET IsHigh(a) == a.priority = "HIGH"
      IsMedium(a) == a.priority = "MEDIUM"
      IsLow(a) == a.priority = "LOW"
  IN  SelectSeq(items, IsHigh) \o SelectSeq(items, IsMedium) \o SelectSeq(items, IsLow)

\* trackStakeholderLifecycle(currentSnapshot, previousSnapshot);
\* previousSnapshot NoSnapshot stands for null
NoSnapshot == [op |-> "null"]

trackStakeholderLifecycle(currentSnapshot, previousSnapshot) ==
  IF previousSnapshot = NoSnapshot
    THEN [op |-> "lifecycle", alerts |-> <<>>, changes |-> <<>>, isFirstSnapshot |-> TRUE]
  ELSE
    LET currentContacts == currentSnapshot.contacts
        previousContacts == previousSnapshot.contacts
        keys == MapKeys(currentContacts)
        perContact == [i \in DOMAIN keys |->
                         contactChanges(keys[i], currentContacts, previousContacts)]
        scoreDelta == currentSnapshot.overallScore - previousSnapshot.overallScore
        depthDelta == currentSnapshot.threadDepth - previousSnapshot.threadDepth
        changes ==
          FlattenSeq([i \in DOMAIN keys |-> perContact[i].changes])
            \o removedStakeholders(currentContacts, previousContacts)
            \o (IF Abs(scoreDelta) >= 10
                  THEN <<[type |-> "SCORE_CHANGE", change |-> scoreDelta]>> ELSE <<>>)
            \o (IF depthDelta # 0
                  THEN <<[type |-> "DEPTH_CHANGE", change |-> depthDelta]>> ELSE <<>>)
        alerts ==
          FlattenSeq([i \in DOMAIN keys |-> perContact[i].alerts])
            \o FlattenSeq([i \in DOMAIN currentContacts |->
                             inactivityAlerts(currentContacts[i])])
    IN  [op |-> "lifecycle", alerts |-> sortByPriority(alerts), changes |-> changes,
         isFirstSnapshot |-> FALSE]

\* the snapshots compared: two contacts, one identified by its contact id and
\* one (without id) by its email; each is in the previous snapshot, the
\* current one, or both
LifecycleRoles == {"CHAMPION", "DECISION_MAKER", "BUDGET_HOLDER"}
LifecycleScores == {6, 25, 30, 50}
LifecycleDays == {-1, 14}
LifecycleOverall == {40, 45, 60}
PreviousOverall == {50}

SnapshotContact(slot, role, score, days) ==
  [contactId |-> IF slot = 1 THEN "201" ELSE "",
   id |-> "",
   email |-> IF slot = 1 THEN "N/A" ELSE "pat@corp.example",
   role |-> role, effectiveRole |-> "",
   engagementScore |-> score, daysSince |-> days]

\* what one contact slot contributes to <<previous, current>>
SlotChoices(slot) ==
  {<< <<>>, <<>> >>}
  \cup {<< <<SnapshotContact(slot, r, s, -1)>>, <<>> >> :
          r \in LifecycleRoles, s \in LifecycleScores}
  \cup {<< <<>>, <<SnapshotContact(slot, r, s, d)>> >> :
          r \in LifecycleRoles, s \in LifecycleScores, d \in LifecycleDays}
  \cup {<< <<SnapshotContact(slot, r, sp, -1)>>, <<SnapshotContact(slot, r, sc, d)>> >> :
          r \in LifecycleRoles, sp \in LifecycleScores, sc \in LifecycleScores,
          d \in LifecycleDays}

EngagedCount(contacts) ==
  LET Engaged(c) == c.engagementScore > 0 IN Len(SelectSeq(contacts, Engaged))

Snapshot(contacts, overallScore) ==
  [contacts |-> contacts, overallScore |-> overallScore,
   threadDepth |-> EngagedCount(contacts)]

LifecycleCalls ==
  {[op |-> "trackStakeholderLifecycle",
    current |-> Snapshot(a[2] \o b[2], o),
    previous |-> Snapshot(a[1] \o b[1], q)] :
     a \in SlotChoices(1), b \in SlotChoices(2), o \in LifecycleOverall,
     q \in PreviousOverall}
  \cup {[op |-> "trackStakeholderLifecycle",
         current |-> Snapshot(a[2], o), previous |-> NoSnapshot] :
          a \in SlotChoices(1), o \in LifecycleOverall}

InitLifecycle ==
  /\ alertHistory = [k \in Keys |-> 0]
  /\ now = TickMinutes * 60 * 1000
  /\ procs = [p \in Procs |-> IdleProc]
  /\ posted = {}
  /\ call \in LifecycleCalls
  /\ ret = NoRet

TrackStakeholderLifecycle ==
  /\ call.op = "trackStakeholderLifecycle"
  /\ ret = NoRet
  /\ ret' = trackStakeholderLifecycle(call.current, call.previous)
  /\ UNCHANGED <<alertHistory, now, procs, posted, call>>

NextLifecycle == TrackStakeholderLifecycle

SpecLifecycle == InitLifecycle /\ [][NextLifecycle]_vars

(***************************************************************************)
(* roleInferenceService.js                                                 *)
(***************************************************************************)
\* the job titles inferred from ("" is a contact without a title)
JobTitles ==
  {"", "Junior Assistant", "CEO", "Chief Financial Officer", "Senior Software Engineer"}

\* JOB_TITLE_PATTERNS: for each pattern that matches the lower-cased title, in
\* the order of the table, the role it belongs to
TitleMatches(jobTitle) ==
  CASE jobTitle = "Junior Assistant"         -> <<"END_USER", "END_USER">>
    [] jobTitle = "CEO"                      -> <<"DECISION_MAKER">>
    [] jobTitle = "Chief Financial Officer"  ->
         <<"DECISION_MAKER", "BUDGET_HOLDER", "BUDGET_HOLDER">>
    [] jobTitle = "Senior Software Engineer" -> <<"CHAMPION", "INFLUENCER">>
    [] OTHER                                 -> <<>>

\* /\b(cfo|financial|finance|budget|treasury|controller|procurement|purchasing)\b/i
isFinanceRole(jobTitle) == jobTitle = "Chief Financial Officer"

\* SENIORITY_KEYWORDS: the first level with a matching pattern
inferSeniorityLevel(jobTitle) ==
  CASE jobTitle \in {"CEO", "Chief Financial Officer"} -> [level |-> "EXECUTIVE", confidence |-> 80]
    [] jobTitle = "Senior Software Engineer"           -> [level |-> "SENIOR", confidence |-> 80]
    [] jobTitle = "Junior Assistant"                   -> [level |-> "JUNIOR", confidence |-> 80]
    [] OTHER                                           -> [level |-> "UNKNOWN", confidence |-> 0]

rolePriority ==
  <<"END_USER", "INFLUENCER", "CHAMPION", "BUDGET_HOLDER", "DECISION_MAKER", "LEGAL",
    "PROCUREMENT">>

\* Array.prototype.indexOf (0-based, -1 when absent)
IndexOf(seq, x) ==
  IF x \in Range(seq) THEN (CHOOSE i \in DOMAIN seq : seq[i] = x /\ \A j \in 1..(i - 1) : seq[j] # x) - 1
  ELSE -1

CountOf(seq, x) == Cardinality({i \in DOMAIN seq : seq[i] = x})

\* the first element of seq whose score is the greatest (a loop keeping the
\* best so far under >, or a stable descending sort followed by [0]); score
\* maps each element to its score
FirstBest(seq, score) ==
  seq[CHOOSE i \in DOMAIN seq :
        /\ \A j \in DOMAIN seq : score[seq[j]] <= score[seq[i]]
        /\ \A j \in 1..(i - 1) : score[seq[j]] < score[seq[i]]]

\* inferRoleFromJobTitle(jobTitle); inferredRole "" stands for null
inferRoleFromJobTitle(jobTitle) ==
  LET matches == TitleMatches(jobTitle)
      IsFinance(r) == r \in {"BUDGET_HOLDER", "PROCUREMENT"}
      financeMatches == SelectSeq(matches, IsFinance)
      confidence == Min(Len(matches) * 25 + 25, 90)
      TotalScore(r) == IndexOf(rolePriority, r) * 10 + CountOf(matches, r)
  IN  IF jobTitle = "" \/ matches = <<>>
        THEN [inferredRole |-> "", confidence |-> 0]
      ELSE IF isFinanceRole(jobTitle) /\ financeMatches # <<>>
        THEN [inferredRole |-> financeMatches[1], confidence |-> confidence]
      ELSE [inferredRole |-> FirstBest(Distinct(matches), [r \in Range(matches) |-> TotalScore(r)]),
            confidence |-> confidence]

\* inferRoleFromBehavior(engagements, engagementTiming)
inferRoleFromBehavior(engagements, engagementTiming) ==
  LET lateJoiner == /\ engagementTiming.meetingStage = "late"
                    /\ engagements.meetings >= 1 /\ engagements.meetings <= 2
      highEngagement == engagements.total >= 10 /\ engagements.meetings >= 3
      emailHeavy == engagements.emails >= 5 /\ engagements.meetings <= 1
      earlyAdopter == engagementTiming.firstEngagementWeek = "early" /\ engagements.total >= 5
  IN  IF lateJoiner THEN [inferredRole |-> "DECISION_MAKER", confidence |-> 50]
      ELSE IF highEngagement THEN [inferredRole |-> "CHAMPION", confidence |-> 60]
      ELSE IF emailHeavy THEN [inferredRole |-> "END_USER", confidence |-> 40]
      ELSE IF earlyAdopter THEN [inferredRole |-> "INFLUENCER", confidence |-> 45]
      ELSE [inferredRole |-> "", confidence |-> 0]

\* the texts analysed
TextSources ==
  {"I will need to approve the budget", "We love it and I recommend it",
   "Thanks for the update"}

\* budgetPatterns, championPatterns, endUserPatterns: for each pattern that
\* matches the lower-cased text, in this order, the role it suggests
TextIndicators(text) ==
  CASE text = "I will need to approve the budget" ->
         <<"BUDGET_HOLDER", "BUDGET_HOLDER", "BUDGET_HOLDER">>
    [] text = "We love it and I recommend it"     -> <<"CHAMPION">>
    [] OTHER                                      -> <<>>

\* analyzeLanguagePatterns(text)
analyzeLanguagePatterns(text) ==
  LET indicators == TextIndicators(text)
      Count(r) == CountOf(indicators, r)
      best == FirstBest(Distinct(indicators), [r \in Range(indicators) |-> Count(r)])
  IN  IF indicators = <<>> THEN [inferredRole |-> "", confidence |-> 0]
      ELSE [inferredRole |-> best, confidence |-> Min(Count(best) * 20, 60)]

\* the inferences inferContactRole gathers: title, behaviour, then each text
gatherInferences(contact, options) ==
  LET titleInference == inferRoleFromJobTitle(contact.properties.jobtitle)
      behaviorInference ==
        inferRoleFromBehavior(contact.engagements, options.engagementTiming)
      language == [i \in DOMAIN options.textSources |->
                     analyzeLanguagePatterns(options.textSources[i])]
      Found(inf) == inf.inferredRole # ""
      found == SelectSeq(language, Found)
  IN  (IF titleInference.inferredRole # ""
         THEN <<[source |-> "job_title", role |-> titleInference.inferredRole,
                 confidence |-> titleInference.confidence]>>
         ELSE <<>>)
      \o (IF behaviorInference.inferredRole # ""
            THEN <<[source |-> "behavior", role |-> behaviorInference.inferredRole,
                    confidence |-> behaviorInference.confidence]>>
            ELSE <<>>)
      \o [i \in DOMAIN found |->
            [source |-> "language", role |-> found[i].inferredRole,
             confidence |-> found[i].confidence]]

\* the source weights 1.5, 1.0 and 0.8, in tenths
sourceWeight10(source) ==
  CASE source = "job_title" -> 15
    [] source = "behavior"  -> 10
    [] source = "language"  -> 8
    [] OTHER                -> 10

\* the inference part of inferContactRole without the cap of the confidence
combineInferencesUncapped(contact, options) ==
  LET inferences == gatherInferences(contact, options)
      RoleScore10(r) ==
        SumSeq([i \in DOMAIN inferences |->
                  IF inferences[i].role = r
                    THEN inferences[i].confidence * sourceWeight10(inferences[i].source)
                    ELSE 0])
      roles == [i \in DOMAIN inferences |-> inferences[i].role]
      bestRole == FirstBest(Distinct(roles), [r \in Range(roles) |-> RoleScore10(r)])
  IN  IF inferences = <<>>
        THEN [op |-> "roleInference", role |-> "OTHER", confidence |-> 0,
              source |-> "default", inferences |-> <<>>]
      ELSE [op |-> "roleInference", role |-> bestRole,
            confidence |-> RoundDiv(RoleScore10(bestRole), 10 * Len(inferences)),
            source |-> "inferred", inferences |-> inferences,
            seniority |-> inferSeniorityLevel(contact.properties.jobtitle)]

\* the inference part of inferContactRole (no usable explicit role)
combineInferences(contact, options) ==
  LET inferences == gatherInferences(contact, options)
      RoleScore10(r) ==
        SumSeq([i \in DOMAIN inferences |->
                  IF inferences[i].role = r
                    THEN inferences[i].confidence * sourceWeight10(inferences[i].source)
                    ELSE 0])
      roles == [i \in DOMAIN inferences |-> inferences[i].role]
      bestRole == FirstBest(Distinct(roles), [r \in Range(roles) |-> RoleScore10(r)])
  IN  IF inferences = <<>>
        THEN [op |-> "roleInference", role |-> "OTHER", confidence |-> 0,
              source |-> "default", inferences |-> <<>>]
      ELSE [op |-> "roleInference", role |-> bestRole,
            confidence |-> Min(RoundDiv(RoleScore10(bestRole), 10 * Len(inferences)), 95),
            source |-> "inferred", inferences |-> inferences,
            seniority |-> inferSeniorityLevel(contact.properties.jobtitle)]

\* inferContactRole with the explicit role consulted only when nothing is inferred
inferContactRoleInferenceFirst(contact, options) ==
  LET explicitRole == contact.properties.hs_buying_role
  IN  IF /\ explicitRole # "" /\ explicitRole # "OTHER" /\ explicitRole # "Not specified"
         /\ gatherInferences(contact, options) = <<>>
        THEN [op |-> "roleInference", role |-> ToUpperCase(explicitRole), confidence |-> 100,
              source |-> "explicit", inferences |-> <<>>]
      ELSE combineInferences(contact, options)

\* inferContactRole(contact, options)
inferContactRole(contact, options) ==
  LET explicitRole == contact.properties.hs_buying_role
  IN  IF explicitRole # "" /\ explicitRole # "OTHER" /\ explicitRole # "Not specified"
        THEN [op |-> "roleInference", role |-> ToUpperCase(explicitRole), confidence |-> 100,
              source |-> "explicit", inferences |-> <<>>]
      ELSE combineInferences(contact, options)

\* bound of the textSources list
MaxTexts == 1

ExplicitRoles == {"", "DECISION_MAKER", "champion", "other", "OTHER", "Not specified"}
BehaviorProfiles == {<<0, 0, 0>>, <<1, 1, 0>>, <<6, 1, 0>>, <<7, 3, 3>>}

RoleCalls ==
  {[op |-> "inferContactRole",
    contact |-> [properties |-> [hs_buying_role |-> r, jobtitle |-> t],
                 engagements |-> getContactEngagements(c[1], c[2], c[3])],
    options |-> [engagementTiming |-> [firstEngagementWeek |-> w, meetingStage |-> m],
                 textSources |-> ts]] :
     r \in ExplicitRoles, t \in JobTitles, c \in BehaviorProfiles,
     w \in {"", "early"}, m \in {"", "late"}, ts \in SeqsUpTo(TextSources, MaxTexts)}

InitRole ==
  /\ alertHistory = [k \in Keys |-> 0]
  /\ now = TickMinutes * 60 * 1000
  /\ procs = [p \in Procs |-> IdleProc]
  /\ posted = {}
  /\ call \in RoleCalls
  /\ ret = NoRet

InferContactRole ==
  /\ call.op = "inferContactRole"
  /\ ret = NoRet
  /\ ret' = inferContactRole(call.contact, call.options)
  /\ UNCHANGED <<alertHistory, now, procs, posted, call>>

NextRole == InferContactRole

SpecRole == InitRole /\ [][NextRole]_vars

(***************************************************************************)
(* riskPredictionService.js                                                *)
(***************************************************************************)
\* An optional number is <<>> (null or absent) or <<n>>.
IsNull(x) == x = <<>>
ValueOf(x) == x[1]

\* no champion: championData null and no CHAMPION among the scored contacts
NoChampion == [op |-> "null"]

\* RISK_FACTORS; the response-rate threshold 0.3 is kept in percent
RISK_FACTORS ==
  [CHAMPION_CHURN_INDICATORS |->
     [lowResponseRate |-> [weight |-> 25, thresholdPercent |-> 30],
      decreasingEngagement |-> [weight |-> 30, threshold |-> -20],
      missedMeetings |-> [weight |-> 20, threshold |-> 2],
      noRecentContact |-> [weight |-> 25, threshold |-> 14]],
   ECONOMIC_BUYER_TIMING |->
     [notInvolvedByStageX |->
        [presentationscheduled |-> [weight |-> 15],
         decisionmakerboughtin |-> [weight |-> 40],
         contractsent |-> [weight |-> 60]]],
   MEETING_PATTERNS |->
     [tooManyWithoutProgression |-> [weight |-> 35, threshold |-> 5],
      noMeetingsRecently |-> [weight |-> 25, threshold |-> 14],
      decreasingAttendance |-> [weight |-> 20, threshold |-> -2]]]

SumContributions(factors) ==
  SumSeq([i \in DOMAIN factors |-> factors[i].riskContribution])

\* the churn label of a total risk score, with the HIGH band starting at 80
churnRiskLabelHighAt80(totalRiskScore) ==
  IF totalRiskScore >= 80 THEN "HIGH"
  ELSE IF totalRiskScore >= 30 THEN "MEDIUM"
  ELSE IF totalRiskScore > 0 THEN "LOW"
  ELSE "NONE"

\* the churn label of a total risk score
churnRiskLabel(totalRiskScore) ==
  IF totalRiskScore >= 60 THEN "HIGH"
  ELSE IF totalRiskScore >= 30 THEN "MEDIUM"
  ELSE IF totalRiskScore > 0 THEN "LOW"
  ELSE "NONE"

\* predictChampionChurn(champion, engagementHistory); responseRate is in percent
predictChampionChurn(champion, engagementHistory) ==
  LET ind == RISK_FACTORS.CHAMPION_CHURN_INDICATORS
      responseRate == engagementHistory.responseRate
      previousEngagementScore == engagementHistory.previousEngagementScore
      missedMeetings == engagementHistory.missedMeetings
      daysSinceLastContact == engagementHistory.daysSinceLastContact
      currentScore == champion.engagementScore
      lowResponse ==
        IF ~IsNull(responseRate) /\ ValueOf(responseRate) < ind.lowResponseRate.thresholdPercent
          THEN <<[factor |-> "Low Response Rate",
                  riskContribution |-> ind.lowResponseRate.weight]>>
          ELSE <<>>
      decreasing ==
        IF /\ ~IsNull(previousEngagementScore)
           /\ currentScore - ValueOf(previousEngagementScore) < ind.decreasingEngagement.threshold
          THEN <<[factor |-> "Decreasing Engagement",
                  riskContribution |-> ind.decreasingEngagement.weight]>>
          ELSE <<>>
      missed ==
        IF missedMeetings >= ind.missedMeetings.threshold
          THEN <<[factor |-> "Missed Meetings",
                  riskContribution |-> ind.missedMeetings.weight]>>
          ELSE <<>>
      noContact ==
        IF /\ ~IsNull(daysSinceLastContact)
           /\ ValueOf(daysSinceLastContact) >= ind.noRecentContact.threshold
          THEN <<[factor |-> "No Recent Contact",
                  riskContribution |-> ind.noRecentContact.weight]>>
          ELSE <<>>
      factors == lowResponse \o decreasing \o missed \o noContact
      totalRiskScore == SumContributions(factors)
  IN  IF champion = NoChampion
        THEN [op |-> "championRisk", churnRisk |-> "UNKNOWN", riskScore |-> 0,
              confidence |-> 0, factors |-> <<>>]
      ELSE [op |-> "championRisk", churnRisk |-> churnRiskLabel(totalRiskScore),
            riskScore |-> totalRiskScore,
            confidence |-> IF Len(factors) > 0 THEN Min(Len(factors) * 25, 90) ELSE 50,
            factors |-> factors]

\* the label of the economic-buyer and meeting risk scores
riskLevelLabel(totalRiskScore) ==
  IF totalRiskScore >= 50 THEN "HIGH"
  ELSE IF totalRiskScore >= 25 THEN "MEDIUM"
  ELSE IF totalRiskScore > 0 THEN "LOW"
  ELSE "NONE"

\* hasEconomicBuyer counting the decision maker only
hasEconomicBuyerDecisionMakerOnly(coveredRoles) ==
  "DECISION_MAKER" \in Range(coveredRoles)

\* hasDecisionMaker || hasBudgetHolder
hasEconomicBuyer(coveredRoles) ==
  "DECISION_MAKER" \in Range(coveredRoles) \/ "BUDGET_HOLDER" \in Range(coveredRoles)

\* (c.role || c.effectiveRole || '').toUpperCase() of a scored contact, whose
\* role is never empty
ScoredRoleOf(c) == ToUpperCase(c.role)

\* predictEconomicBuyerRisk(scoreData, dealStage)
predictEconomicBuyerRisk(scoreData, dealStage) ==
  LET byStage == RISK_FACTORS.ECONOMIC_BUYER_TIMING.notInvolvedByStageX
      hasBuyer == hasEconomicBuyer(scoreData.coveredRoles)
      notInvolved ==
        IF dealStage \in DOMAIN byStage /\ ~hasBuyer
          THEN <<[factor |-> "Economic Buyer Not Involved",
                  riskContribution |-> byStage[dealStage].weight]>>
          ELSE <<>>
      IsBuyer(c) == ScoredRoleOf(c) \in {"DECISION_MAKER", "BUDGET_HOLDER"}
      economicBuyers == SelectSeq(scoreData.contacts, IsBuyer)
      scoreSum == SumSeq([i \in DOMAIN economicBuyers |-> economicBuyers[i].engagementScore])
      \* avgEngagement < 30, with avgEngagement = scoreSum / (length || 1)
      lowEngagement ==
        IF hasBuyer /\ scoreSum < 30 * Max(Len(economicBuyers), 1)
          THEN <<[factor |-> "Low Economic Buyer Engagement", riskContribution |-> 25]>>
          ELSE <<>>
      factors == notInvolved \o lowEngagement
      totalRiskScore == SumContributions(factors)
  IN  [op |-> "economicBuyerRisk", riskLevel |-> riskLevelLabel(totalRiskScore),
       riskScore |-> totalRiskScore, hasEconomicBuyer |-> hasBuyer, factors |-> factors]

\* predictMeetingProgressionRisk(meetingData)
predictMeetingProgressionRisk(meetingData) ==
  LET pat == RISK_FACTORS.MEETING_PATTERNS
      stalled ==
        IF meetingData.meetingsSinceStageChange >= pat.tooManyWithoutProgression.threshold
          THEN <<[factor |-> "Stalled Progression",
                  riskContribution |-> pat.tooManyWithoutProgression.weight]>>
          ELSE <<>>
      gap ==
        IF /\ ~IsNull(meetingData.daysSinceLastMeeting)
           /\ ValueOf(meetingData.daysSinceLastMeeting) >= pat.noMeetingsRecently.threshold
          THEN <<[factor |-> "Meeting Gap",
                  riskContribution |-> pat.noMeetingsRecently.weight]>>
          ELSE <<>>
      attendance ==
        IF /\ ~IsNull(meetingData.previousAverageAttendees)
           /\ meetingData.averageAttendees - ValueOf(meetingData.previousAverageAttendees)
                <= pat.decreasingAttendance.threshold
          THEN <<[factor |-> "Decreasing Attendance",
                  riskContribution |-> pat.decreasingAttendance.weight]>>
          ELSE <<>>
      factors == stalled \o gap \o attendance
      totalRiskScore == SumContributions(factors)
  IN  [op |-> "meetingRisk", riskLevel |-> riskLevelLabel(totalRiskScore),
       riskScore |-> totalRiskScore, factors |-> factors]

\* the deal label with HIGH from a composite of 40 on
overallRiskLevelFromForty(compositeRiskScore, levels) ==
  IF compositeRiskScore >= 40 \/ "HIGH" \in Range(levels) THEN "HIGH"
  ELSE IF compositeRiskScore >= 25 THEN "MEDIUM"
  ELSE IF compositeRiskScore > 0 THEN "LOW"
  ELSE "HEALTHY"

\* the deal label from the composite score alone
overallRiskLevelCompositeOnly(compositeRiskScore, levels) ==
  IF compositeRiskScore >= 50 THEN "HIGH"
  ELSE IF compositeRiskScore >= 25 THEN "MEDIUM"
  ELSE IF compositeRiskScore > 0 THEN "LOW"
  ELSE "HEALTHY"

\* the deal label from the composite score and the three sub-model labels
overallRiskLevel(compositeRiskScore, levels) ==
  IF compositeRiskScore >= 50 \/ "HIGH" \in Range(levels) THEN "HIGH"
  ELSE IF compositeRiskScore >= 25 THEN "MEDIUM"
  ELSE IF compositeRiskScore > 0 THEN "LOW"
  ELSE "HEALTHY"

\* Array.prototype.sort((a, b) => a.priority - b.priority): stable, ascending
RECURSIVE sortByPriorityNumber(_)
sortByPriorityNumber(seq) ==
  IF seq = <<>> THEN <<>>
  ELSE LET lowest == CHOOSE i \in DOMAIN seq :
                       /\ \A j \in DOMAIN seq : seq[i].priority <= seq[j].priority
                       /\ \A j \in 1..(i - 1) : seq[j].priority > seq[i].priority
       IN  <<seq[lowest]>>
           \o sortByPriorityNumber(SubSeq(seq, 1, lowest - 1)
                                   \o SubSeq(seq, lowest + 1, Len(seq)))

\* scoreData.contacts?.find(c => role(c) === 'CHAMPION')
findChampion(contacts) ==
  LET IsChampion(c) == ScoredRoleOf(c) = "CHAMPION"
      champions == SelectSeq(contacts, IsChampion)
  IN  IF champions = <<>> THEN NoChampion ELSE champions[1]

\* predictDealRisk(dealData, scoreData, additionalData).  The composite is
\* Math.round(champion * 0.35 + economicBuyer * 0.35 + meeting * 0.30); on
\* every triple of scores the three sub-models can return, the IEEE-754
\* evaluation rounds as the exact value does.
predictDealRisk(dealData, scoreData, additionalData) ==
  LET dealStage == IF dealData.deal.dealstage = "" THEN "default" ELSE dealData.deal.dealstage
      champion == IF additionalData.championData # NoChampion
                    THEN additionalData.championData
                    ELSE findChampion(scoreData.contacts)
      championRisk == predictChampionChurn(champion, additionalData.engagementHistory)
      economicBuyerRisk == predictEconomicBuyerRisk(scoreData, dealStage)
      meetingRisk == predictMeetingProgressionRisk(additionalData.meetingData)
      compositeRiskScore ==
        RoundDiv(championRisk.riskScore * 35 + economicBuyerRisk.riskScore * 35
                   + meetingRisk.riskScore * 30, 100)
      priorityActions ==
        (IF championRisk.churnRisk = "HIGH"
           THEN <<[priority |-> 1, action |-> "Champion at risk"]>> ELSE <<>>)
        \o (IF economicBuyerRisk.riskLevel = "HIGH"
              THEN <<[priority |-> 2, action |-> "Economic buyer gap"]>> ELSE <<>>)
        \o (IF meetingRisk.riskLevel = "HIGH"
              THEN <<[priority |-> 3, action |-> "Deal stalled"]>> ELSE <<>>)
  IN  [op |-> "dealRisk",
       overallRiskLevel |->
         overallRiskLevel(compositeRiskScore,
                          <<championRisk.churnRisk, economicBuyerRisk.riskLevel,
                            meetingRisk.riskLevel>>),
       compositeRiskScore |-> compositeRiskScore,
       riskBreakdown |-> [champion |-> championRisk, economicBuyer |-> economicBuyerRisk,
                          meetingProgression |-> meetingRisk],
       priorityActions |-> sortByPriorityNumber(priorityActions),
       confidence |->
         RoundDiv(championRisk.confidence
                    + (IF Len(economicBuyerRisk.factors) > 0 THEN 70 ELSE 50)
                    + (IF Len(meetingRisk.factors) > 0 THEN 70 ELSE 50), 3)]

\* bound of the contact lists the risk models read
MaxRiskContacts == 2

\* the deal stages: the pipeline's stages, a stage outside the risk tables,
\* and a deal without a stage
DealStages ==
  {"", "appointmentscheduled", "presentationscheduled", "decisionmakerboughtin",
   "contractsent", "closedwon"}

RiskRoles == {"", "CHAMPION", "INFLUENCER", "DECISION_MAKER", "BUDGET_HOLDER"}
RiskProfiles == {<<1, 0, 0>>, <<4, 2, 0>>}

RiskContactLists(roles) ==
  {[i \in DOMAIN l |-> Contact(ContactId(i), l[i][1], l[i][2])] :
     l \in SeqsUpTo(roles \X RiskProfiles, MaxRiskContacts)}

\* the contacts of the deals the deal-level calls are made for
DealContactLists ==
  {<<>>,
   <<Contact(ContactId(1), "CHAMPION", <<4, 2, 0>>)>>,
   <<Contact(ContactId(1), "CHAMPION", <<1, 0, 0>>)>>,
   <<Contact(ContactId(1), "DECISION_MAKER", <<4, 2, 0>>)>>,
   <<Contact(ContactId(1), "CHAMPION", <<4, 2, 0>>),
     Contact(ContactId(2), "DECISION_MAKER", <<1, 0, 0>>)>>,
   <<Contact(ContactId(1), "BUDGET_HOLDER", <<4, 2, 0>>),
     Contact(ContactId(2), "champion", <<1, 0, 0>>)>>}

\* a champion supplied by the caller
SuppliedChampion ==
  [contactId |-> "209", email |-> "N/A", role |-> "CHAMPION", engagementScore |-> 85,
   engagements |-> getContactEngagements(6, 2, 1)]

EngagementHistories ==
  [responseRate : {<<>>, <<20>>, <<30>>},
   previousEngagementScore : {<<>>, <<80>>, <<81>>},
   missedMeetings : {0, 1, 2},
   daysSinceLastContact : {<<>>, <<13>>, <<14>>}]

MeetingData ==
  [meetingsSinceStageChange : {0, 4, 5},
   daysSinceLastMeeting : {<<>>, <<13>>, <<14>>},
   averageAttendees : {3},
   previousAverageAttendees : {<<>>, <<4>>, <<5>>}]

\* the histories and meeting data the deal-level calls are made with
DealEngagementHistories ==
  {h \in EngagementHistories :
     /\ h.responseRate \in {<<>>, <<20>>}
     /\ h.previousEngagementScore \in {<<>>, <<80>>}
     /\ h.missedMeetings \in {0, 2}
     /\ h.daysSinceLastContact \in {<<>>, <<14>>}}

DealMeetingData ==
  {m \in MeetingData :
     /\ m.meetingsSinceStageChange \in {0, 5}
     /\ m.daysSinceLastMeeting \in {<<>>, <<14>>}
     /\ m.previousAverageAttendees \in {<<>>, <<5>>}}

RiskCalls ==
  {[op |-> "predictChampionChurn", champion |-> c, engagementHistory |-> h] :
     c \in {NoChampion, SuppliedChampion,
            findChampion(calculateMultiThreadingScore(
                           <<Contact(ContactId(1), "champion", <<4, 2, 0>>)>>).contacts)},
     h \in EngagementHistories}
  \cup {[op |-> "predictEconomicBuyerRisk",
         scoreData |-> calculateMultiThreadingScore(l), dealStage |-> st] :
          l \in RiskContactLists(RiskRoles), st \in (DealStages \ {""}) \cup {"default"}}
  \cup {[op |-> "predictMeetingProgressionRisk", meetingData |-> m] : m \in MeetingData}
  \cup {[op |-> "predictDealRisk",
         dealData |-> [deal |-> [dealstage |-> st], contacts |-> l],
         scoreData |-> calculateMultiThreadingScore(l),
         additionalData |-> [engagementHistory |-> h, meetingData |-> m,
                             championData |-> cd]] :
          st \in {"", "presentationscheduled", "decisionmakerboughtin", "contractsent"},
          l \in DealContactLists,
          h \in DealEngagementHistories, m \in DealMeetingData,
          cd \in {NoChampion, SuppliedChampion}}

InitRisk ==
  /\ alertHistory = [k \in Keys |-> 0]
  /\ now = TickMinutes * 60 * 1000
  /\ procs = [p \in Procs |-> IdleProc]
  /\ posted = {}
  /\ call \in RiskCalls
  /\ ret = NoRet

PredictChampionChurn ==
  /\ call.op = "predictChampionChurn"
  /\ ret = NoRet
  /\ ret' = predictChampionChurn(call.champion, call.engagementHistory)
  /\ UNCHANGED <<alertHistory, now, procs, posted, call>>

PredictEconomicBuyerRisk ==
  /\ call.op = "predictEconomicBuyerRisk"
  /\ ret = NoRet
  /\ ret' = predictEconomicBuyerRisk(call.scoreData, call.dealStage)
  /\ UNCHANGED <<alertHistory, now, procs, posted, call>>

PredictMeetingProgressionRisk ==
  /\ call.op = "predictMeetingProgressionRisk"
  /\ ret = NoRet
  /\ ret' = predictMeetingProgressionRisk(call.meetingData)
  /\ UNCHANGED <<alertHistory, now, procs, posted, call>>

PredictDealRisk ==
  /\ call.op = "predictDealRisk"
  /\ ret = NoRet
  /\ ret' = predictDealRisk(call.dealData, call.scoreData, call.additionalData)
  /\ UNCHANGED <<alertHistory, now, procs, posted, call>>

NextRisk ==
  \/ PredictChampionChurn
  \/ PredictEconomicBuyerRisk
  \/ PredictMeetingProgressionRisk
  \/ PredictDealRisk

SpecRisk == InitRisk /\ [][NextRisk]_vars

(***************************************************************************)
(* coverageAnalysisService.js: recency, champion strength                  *)
(***************************************************************************)
\* RECENCY_WEIGHTS, in percent
RECENCY_WEIGHTS ==
  [LAST_7_DAYS |-> 100, LAST_14_DAYS |-> 80, LAST_30_DAYS |-> 60, LAST_60_DAYS |-> 40,
   OLDER |-> 20]

\* Timestamps are counted in whole minutes; the day of 1000 * 60 * 60 * 24
\* milliseconds is 60 * 24 minutes.
DayMinutes == 60 * 24

\* the whole days between two instants: Math.floor((now - lastDate) / day)
daysSinceAt(nowMinutes, lastMinutes) == (nowMinutes - lastMinutes) \div DayMinutes

\* calculateRecencyScore with the 7-day band closed one day early
calculateRecencyScoreShortWeek(lastEngagementDate, nowMinutes) ==
  IF IsNull(lastEngagementDate) THEN 0
  ELSE LET daysSince == daysSinceAt(nowMinutes, ValueOf(lastEngagementDate))
       IN  IF daysSince < 7 THEN (100 * RECENCY_WEIGHTS.LAST_7_DAYS) \div 100
           ELSE IF daysSince <= 14 THEN (100 * RECENCY_WEIGHTS.LAST_14_DAYS) \div 100
           ELSE IF daysSince <= 30 THEN (100 * RECENCY_WEIGHTS.LAST_30_DAYS) \div 100
           ELSE IF daysSince <= 60 THEN (100 * RECENCY_WEIGHTS.LAST_60_DAYS) \div 100
           ELSE (100 * RECENCY_WEIGHTS.OLDER) \div 100

\* calculateRecencyScore(lastEngagementDate), evaluated when new Date() reads
\* nowMinutes; the date is a timestamp, <<>> for null
calculateRecencyScore(lastEngagementDate, nowMinutes) ==
  IF IsNull(lastEngagementDate) THEN 0
  ELSE LET daysSince == daysSinceAt(nowMinutes, ValueOf(lastEngagementDate))
       IN  IF daysSince <= 7 THEN (100 * RECENCY_WEIGHTS.LAST_7_DAYS) \div 100
           ELSE IF daysSince <= 14 THEN (100 * RECENCY_WEIGHTS.LAST_14_DAYS) \div 100
           ELSE IF daysSince <= 30 THEN (100 * RECENCY_WEIGHTS.LAST_30_DAYS) \div 100
           ELSE IF daysSince <= 60 THEN (100 * RECENCY_WEIGHTS.LAST_60_DAYS) \div 100
           ELSE (100 * RECENCY_WEIGHTS.OLDER) \div 100

\* bound of the age, in days, of the last engagement
MaxAgeDays == 62

\* the clock of the coverage calls
CoverageNow == (MaxAgeDays + 30) * DayMinutes

\* last-engagement dates: null, and every half day from half a day ahead of
\* the clock back to MaxAgeDays and a half days ago
LastEngagementDates ==
  {<<>>} \cup {<<CoverageNow - h * (DayMinutes \div 2)>> : h \in (-1)..(2 * MaxAgeDays + 1)}

\* the job titles of the champions rated
ChampionTitles == {"", "Senior Software Engineer", "Marketing Manager", "Business Analyst"}

\* the influence points of a job title: 25 for /\b(senior|sr\.|lead|principal|
\* director|vp|head)\b/i, else 20 for /\b(manager|supervisor)\b/i, else 15 for
\* /\b(specialist|consultant|analyst)\b/i, else 10
influenceScore(jobTitle) ==
  CASE jobTitle = "Senior Software Engineer" -> 25
    [] jobTitle = "Marketing Manager"        -> 20
    [] jobTitle = "Business Analyst"         -> 15
    [] OTHER                                 -> 10

\* the reliability label of totalScore, given in hundredths of a point
reliabilityLabel(totalScore100) ==
  IF totalScore100 >= 80 * 100 THEN "STRONG"
  ELSE IF totalScore100 >= 60 * 100 THEN "MODERATE"
  ELSE IF totalScore100 >= 40 * 100 THEN "DEVELOPING"
  ELSE "WEAK"

\* calculateChampionStrength(champion, options).  responseRate and
\* meetingAttendance are rates given in percent (<<>> for null), so that
\* rate * 25 is percent * 25 hundredths of a point; totalScore is kept in
\* hundredths.
calculateChampionStrength(champion, options) ==
  LET engagements == champion.engagements
      responsiveness100 ==
        IF ~IsNull(options.responseRate)
          THEN Min(ValueOf(options.responseRate) * 25, 25 * 100)
          ELSE Min(engagements.total * 2, 25) * 100
      advocacyScore == Min(Len(options.advocacyIndicators) * 5 + 5, 25)
      attendance100 ==
        IF ~IsNull(options.meetingAttendance)
          THEN Min(ValueOf(options.meetingAttendance) * 25, 25 * 100)
          ELSE Min(engagements.meetings * 5, 25) * 100
      influence == influenceScore(champion.properties.jobtitle)
      factors ==
        <<[name |-> IF ~IsNull(options.responseRate) THEN "Responsiveness"
                    ELSE "Responsiveness (estimated)",
           score |-> RoundDiv(responsiveness100, 100)],
          [name |-> "Advocacy", score |-> advocacyScore],
          [name |-> IF ~IsNull(options.meetingAttendance) THEN "Meeting Attendance"
                    ELSE "Meeting Participation",
           score |-> RoundDiv(attendance100, 100)],
          [name |-> "Influence Level", score |-> influence]>>
      totalScore100 == responsiveness100 + advocacyScore * 100 + attendance100
                         + influence * 100
      reliability == reliabilityLabel(totalScore100)
      recommendations ==
        (IF factors[1].score < 15
           THEN <<"Improve communication frequency with champion">> ELSE <<>>)
        \o (IF factors[2].score < 15
              THEN <<"Provide champion with compelling content to share internally">>
              ELSE <<>>)
        \o (IF factors[3].score < 15
              THEN <<"Increase meeting frequency with champion">> ELSE <<>>)
        \o (IF reliability = "WEAK"
              THEN <<"Consider identifying an additional or alternative champion">>
              ELSE <<>>)
  IN  IF champion = NoChampion
        THEN [strengthScore |-> 0, reliability |-> "NONE", factors |-> <<>>,
              recommendations |->
                <<"Identify and develop a champion within the organization">>]
      ELSE [strengthScore |-> RoundDiv(totalScore100, 100),
            reliability |-> reliability,
            factors |-> factors,
            recommendations |->
              IF Len(recommendations) > 0 THEN recommendations
              ELSE <<"Champion is performing well - maintain current engagement">>]

\* bound of the advocacyIndicators list
MaxIndicators == 4

RatesPercent == {<<>>, <<0>>, <<50>>, <<99>>, <<100>>}

Champions ==
  {NoChampion}
  \cup {[properties |-> [jobtitle |-> t],
         engagements |-> getContactEngagements(c[1], c[2], c[3])] :
          t \in ChampionTitles, c \in {<<0, 0, 0>>, <<4, 2, 0>>, <<6, 4, 3>>}}

ChampionOptions ==
  [responseRate : RatesPercent,
   advocacyIndicators : {[i \in 1..n |-> "advocacy"] : n \in {0, 1, MaxIndicators}},
   meetingAttendance : RatesPercent]

CoverageCalls ==
  {[op |-> "calculateRecencyScore", lastEngagementDate |-> d, clock |-> CoverageNow] :
     d \in LastEngagementDates}
  \cup {[op |-> "calculateChampionStrength", champion |-> c, options |-> o] :
          c \in Champions, o \in ChampionOptions}

InitCoverage ==
  /\ alertHistory = [k \in Keys |-> 0]
  /\ now = TickMinutes * 60 * 1000
  /\ procs = [p \in Procs |-> IdleProc]
  /\ posted = {}
  /\ call \in CoverageCalls
  /\ ret = NoRet

CalculateRecencyScore ==
  /\ call.op = "calculateRecencyScore"
  /\ ret = NoRet
  /\ ret' = [op |-> "returned", value |-> calculateRecencyScore(call.lastEngagementDate, call.clock)]
  /\ UNCHANGED <<alertHistory, now, procs, posted, call>>

CalculateChampionStrength ==
  /\ call.op = "calculateChampionStrength"
  /\ ret = NoRet
  /\ ret' = [op |-> "returned",
             value |-> calculateChampionStrength(call.champion, call.options)]
  /\ UNCHANGED <<alertHistory, now, procs, posted, call>>

NextCoverage ==
  \/ CalculateRecencyScore
  \/ CalculateChampionStrength

SpecCoverage == InitCoverage /\ [][NextCoverage]_vars

(***************************************************************************)
(* coverageAnalysisService: breadth and depth of the role coverage.        *)
(***************************************************************************)
\* thresholdMultiplier is kept in tenths
STAGE_ROLE_EXPECTATIONS ==
  [appointmentscheduled |->
     [required |-> <<"CHAMPION", "INFLUENCER">>, recommended |-> <<>>,
      thresholdMultiplier |-> 6],
   qualifiedtobuy |->
     [required |-> <<"CHAMPION", "INFLUENCER">>, recommended |-> <<"DECISION_MAKER">>,
      thresholdMultiplier |-> 7],
   presentationscheduled |->
     [required |-> <<"CHAMPION", "DECISION_MAKER">>, recommended |-> <<"BUDGET_HOLDER">>,
      thresholdMultiplier |-> 8],
   decisionmakerboughtin |->
     [required |-> <<"DECISION_MAKER", "BUDGET_HOLDER", "CHAMPION">>,
      recommended |-> <<"INFLUENCER">>, thresholdMultiplier |-> 9],
   contractsent |->
     [required |-> <<"DECISION_MAKER", "BUDGET_HOLDER", "CHAMPION">>,
      recommended |-> <<"LEGAL", "PROCUREMENT">>, thresholdMultiplier |-> 10],
   closedwon |->
     [required |-> <<"DECISION_MAKER", "BUDGET_HOLDER">>, recommended |-> <<>>,
      thresholdMultiplier |-> 10],
   default |->
     [required |-> <<"CHAMPION">>, recommended |-> <<"DECISION_MAKER", "BUDGET_HOLDER">>,
      thresholdMultiplier |-> 7]]

\* contact.effectiveRole || contact.properties?.hs_buying_role?.toUpperCase() || 'OTHER'
\* (a contact record carries effectiveRole only after inferRolesForContacts)
coverageRoleOf(contact) ==
  IF "effectiveRole" \in DOMAIN contact /\ contact.effectiveRole # ""
    THEN contact.effectiveRole
  ELSE RoleOf(contact)

\* the contacts of one role, in list order
contactsOfRole(contacts, role) ==
  LET InRole(contact) == coverageRoleOf(contact) = role
  IN  SelectSeq(contacts, InRole)

\* the names every object inherits from Object.prototype: the lookup
\* STAGE_ROLE_EXPECTATIONS[dealStage] by one of them finds the inherited
\* member, which is truthy, so the default entry is not taken
ObjectPrototypeKeys ==
  {"constructor", "toString", "toLocaleString", "valueOf", "hasOwnProperty",
   "isPrototypeOf", "propertyIsEnumerable", "__proto__"}

\* (every stage of the table has a required role, so requiredCoverage is
\* coveredRequired / required * 100; roleContacts is contactsOfRole; an
\* inherited member has no required list, and filtering it throws)
calculateBreadthScore(contacts, options) ==
  LET dealStage == IF options.dealStage = "" THEN "default" ELSE options.dealStage
      coveredRoles == Distinct([i \in DOMAIN contacts |-> coverageRoleOf(contacts[i])])
      stageExpectations ==
        IF dealStage \in DOMAIN STAGE_ROLE_EXPECTATIONS
          THEN STAGE_ROLE_EXPECTATIONS[dealStage]
        ELSE STAGE_ROLE_EXPECTATIONS.default
      IsCovered(role) == role \in Range(coveredRoles)
      IsMissing(role) == role \notin Range(coveredRoles)
      coveredRequired == SelectSeq(stageExpectations.required, IsCovered)
      diversityBonus == Min((Len(coveredRoles) - Len(coveredRequired)) * 5, 20)
  IN  IF dealStage \in ObjectPrototypeKeys
        THEN [completion |-> "throw",
              message |-> "TypeError: Cannot read properties of undefined (reading 'filter')"]
      ELSE
      [completion |-> "return",
       breadthScore |->
         Min(RoundDiv(Len(coveredRequired) * 80
                        + diversityBonus * Len(stageExpectations.required),
                      Len(stageExpectations.required)), 100),
       totalRolesRepresented |-> Len(coveredRoles),
       coveredRoles |-> coveredRoles,
       stageAnalysis |->
         [dealStage |-> dealStage,
          requiredRoles |-> stageExpectations.required,
          recommendedRoles |-> stageExpectations.recommended,
          missingRequired |-> SelectSeq(stageExpectations.required, IsMissing),
          missingRecommended |-> SelectSeq(stageExpectations.recommended, IsMissing),
          coveredRequired |-> coveredRequired,
          thresholdMultiplier |-> stageExpectations.thresholdMultiplier]]

\* contact.lastEngagementDate || null
lastEngagementOf(contact) ==
  IF "lastEngagementDate" \in DOMAIN contact THEN contact.lastEngagementDate ELSE <<>>

calculateRoleDepthScore(roleContacts, nowMinutes) ==
  IF Len(roleContacts) = 0
    THEN [depthScore |-> 0, engagementLevel |-> "NONE", frequencyScore |-> 0,
          recencyScore |-> 0, contactCount |-> 0, activeContacts |-> 0]
  ELSE
    LET totalEngagementScore ==
          SumSeq([i \in DOMAIN roleContacts |->
                    Min(roleContacts[i].engagements.total * 10, 100)])
        totalRecencyScore ==
          SumSeq([i \in DOMAIN roleContacts |->
                    calculateRecencyScore(lastEngagementOf(roleContacts[i]), nowMinutes)])
        depthScore ==
          RoundDiv(6 * totalEngagementScore + 4 * totalRecencyScore,
                   10 * Len(roleContacts))
    IN  [depthScore |-> depthScore,
         engagementLevel |-> IF depthScore >= 70 THEN "HIGH"
                             ELSE IF depthScore >= 40 THEN "MEDIUM"
                             ELSE IF depthScore > 0 THEN "LOW"
                             ELSE "NONE",
         frequencyScore |-> RoundDiv(totalEngagementScore, Len(roleContacts)),
         recencyScore |-> RoundDiv(totalRecencyScore, Len(roleContacts)),
         contactCount |-> Len(roleContacts),
         activeContacts |->
           Cardinality({i \in DOMAIN roleContacts : roleContacts[i].engagements.total > 0})]

\* roleGroups keeps the roles in the order of their first contact; the sort
\* by descending depth is stable, so the strongest role is the first of the
\* deepest roles and the weakest the last of the shallowest
calculateDepthScore(contacts, nowMinutes) ==
  LET roles == Distinct([i \in DOMAIN contacts |-> coverageRoleOf(contacts[i])])
      roleDepths ==
        [role \in Range(roles) |->
           calculateRoleDepthScore(contactsOfRole(contacts, role), nowMinutes)]
      totalDepth == SumSeq([i \in DOMAIN roles |-> roleDepths[roles[i]].depthScore])
      roleCount == Len(roles)
      strongest ==
        CHOOSE i \in DOMAIN roles :
          /\ \A j \in DOMAIN roles :
               roleDepths[roles[j]].depthScore <= roleDepths[roles[i]].depthScore
          /\ \A j \in 1..(i - 1) :
               roleDepths[roles[j]].depthScore < roleDepths[roles[i]].depthScore
      weakest ==
        CHOOSE i \in DOMAIN roles :
          /\ \A j \in DOMAIN roles :
               roleDepths[roles[j]].depthScore >= roleDepths[roles[i]].depthScore
          /\ \A j \in (i + 1)..Len(roles) :
               roleDepths[roles[j]].depthScore > roleDepths[roles[i]].depthScore
  IN  [overallDepthScore |-> IF roleCount > 0 THEN RoundDiv(totalDepth, roleCount) ELSE 0,
       roleDepths |-> roleDepths,
       strongestRole |-> IF roleCount > 0 THEN <<roles[strongest]>> ELSE <<>>,
       weakestRole |-> IF roleCount > 0 THEN <<roles[weakest]>> ELSE <<>>,
       roleCount |-> roleCount]

\* (for a stage key outside ObjectPrototypeKeys, where calculateBreadthScore
\* returns)
calculateCoverageAnalysis(contacts, options, nowMinutes) ==
  LET breadthAnalysis == calculateBreadthScore(contacts, options)
      depthAnalysis == calculateDepthScore(contacts, nowMinutes)
      coverageScore ==
        RoundDiv(breadthAnalysis.breadthScore + depthAnalysis.overallDepthScore, 2)
      adjustedThreshold == 7 * breadthAnalysis.stageAnalysis.thresholdMultiplier
  IN  [coverageScore |-> coverageScore,
       breadth |-> breadthAnalysis,
       depth |-> depthAnalysis,
       meetsStageExpectations |-> coverageScore >= adjustedThreshold,
       adjustedThreshold |-> adjustedThreshold]

(***************************************************************************)
(* workflowActionsService: the actions a HubSpot workflow can run.         *)
(***************************************************************************)
WORKFLOW_ACTIONS ==
  [CHECK_SCORE_THRESHOLD |-> "check_score_threshold",
   CHECK_ROLE_COVERAGE |-> "check_role_coverage",
   CHECK_STAKEHOLDER_COUNT |-> "check_stakeholder_count",
   NOTIFY_ON_CONDITION |-> "notify_on_condition",
   CREATE_TASK |-> "create_task",
   UPDATE_DEAL_PROPERTY |-> "update_deal_property",
   RECALCULATE_SCORE |-> "recalculate_score"]

ACTION_RESULTS ==
  [CONDITION_MET |-> "CONDITION_MET",
   CONDITION_NOT_MET |-> "CONDITION_NOT_MET",
   ACTION_COMPLETED |-> "ACTION_COMPLETED",
   ACTION_FAILED |-> "ACTION_FAILED"]

\* how a call completes: with a value, or with an exception
Returned(value) == [completion |-> "return", value |-> value]
Thrown(message) == [completion |-> "throw", message |-> message]

\* the params argument is <<>> when the request body has no params, else
\* <<object>>; destructuring an undefined params throws a TypeError
DestructureError(property) ==
  "Cannot destructure property '" \o property \o "' of 'params' as it is undefined."

\* a destructured property with its default
ParamOr(params, property, default) ==
  IF property \in DOMAIN params THEN params[property] ELSE default

handleScoreThresholdCheck(params, dealData) ==
  IF IsNull(params) THEN Thrown(DestructureError("threshold"))
  ELSE
    LET threshold == ParamOr(ValueOf(params), "threshold", 40)
        comparison == ParamOr(ValueOf(params), "comparison", "LESS_THAN")
        scoreData == calculateMultiThreadingScore(dealData.contacts)
        conditionMet ==
          CASE comparison = "LESS_THAN" -> scoreData.overallScore < threshold
            [] comparison = "LESS_THAN_OR_EQUAL" -> scoreData.overallScore <= threshold
            [] comparison = "GREATER_THAN" -> scoreData.overallScore > threshold
            [] comparison = "GREATER_THAN_OR_EQUAL" -> scoreData.overallScore >= threshold
            [] comparison = "EQUALS" -> scoreData.overallScore = threshold
            [] OTHER -> scoreData.overallScore < threshold
    IN  Returned(
          [result |-> IF conditionMet THEN ACTION_RESULTS.CONDITION_MET
                      ELSE ACTION_RESULTS.CONDITION_NOT_MET,
           outputFields |->
             [current_score |-> scoreData.overallScore,
              threshold_value |-> threshold,
              comparison_type |-> comparison,
              condition_met |-> conditionMet,
              risk_level |-> scoreData.riskLevel,
              stakeholder_count |-> scoreData.contactCount]])

\* (the contacts of the score data carry role and no effectiveRole)
handleRoleCoverageCheck(params, dealData) ==
  IF IsNull(params) THEN Thrown(DestructureError("role"))
  ELSE
    LET role == ParamOr(ValueOf(params), "role", "DECISION_MAKER")
        engagementThreshold == ParamOr(ValueOf(params), "engagementThreshold", 0)
        scoreData == calculateMultiThreadingScore(dealData.contacts)
        InRole(c) == ToUpperCase(c.role) = ToUpperCase(role)
        roleContacts == SelectSeq(scoreData.contacts, InRole)
        hasEngagedRole ==
          \E i \in DOMAIN roleContacts :
            roleContacts[i].engagementScore >= engagementThreshold
    IN  Returned(
          [result |-> IF hasEngagedRole THEN ACTION_RESULTS.CONDITION_MET
                      ELSE ACTION_RESULTS.CONDITION_NOT_MET,
           outputFields |->
             [role_checked |-> role,
              role_present |-> Len(roleContacts) > 0,
              role_engaged |-> hasEngagedRole,
              contacts_in_role |-> Len(roleContacts),
              engagement_threshold |-> engagementThreshold,
              role_contacts |->
                [i \in DOMAIN roleContacts |->
                   [email |-> roleContacts[i].email,
                    engagementScore |-> roleContacts[i].engagementScore]]]])

handleStakeholderCountCheck(params, dealData) ==
  IF IsNull(params) THEN Thrown(DestructureError("minCount"))
  ELSE
    LET minCount == ParamOr(ValueOf(params), "minCount", 3)
        countEngagedOnly == ParamOr(ValueOf(params), "countEngagedOnly", FALSE)
        engagementThreshold == ParamOr(ValueOf(params), "engagementThreshold", 20)
        scoreData == calculateMultiThreadingScore(dealData.contacts)
        count ==
          IF countEngagedOnly
            THEN Cardinality({i \in DOMAIN scoreData.contacts :
                                scoreData.contacts[i].engagementScore >= engagementThreshold})
          ELSE scoreData.contactCount
        conditionMet == count >= minCount
    IN  Returned(
          [result |-> IF conditionMet THEN ACTION_RESULTS.CONDITION_MET
                      ELSE ACTION_RESULTS.CONDITION_NOT_MET,
           outputFields |->
             [stakeholder_count |-> count,
              minimum_required |-> minCount,
              counted_engaged_only |-> countEngagedOnly,
              condition_met |-> conditionMet,
              is_single_threaded |-> count <= 1]])

\* the due date is the clock plus dueInDays days, kept in minutes; the notes
\* written from the score are kept as the values they are assembled from
generateTaskPayload(params, dealData, scoreData, nowMinutes) ==
  IF IsNull(params) THEN Thrown(DestructureError("taskType"))
  ELSE
    LET notes == ParamOr(ValueOf(params), "notes", "")
        dynamicNotes ==
          IF notes # "" THEN [text |-> notes]
          ELSE [overallScore |-> scoreData.overallScore,
                riskLevel |-> scoreData.riskLevel,
                contactCount |-> scoreData.contactCount,
                threadDepth |-> scoreData.threadDepth,
                missingKeyRoles |-> scoreData.missingKeyRoles]
    IN  Returned(
          [properties |->
             [hs_task_subject |->
                ParamOr(ValueOf(params), "subject", "Multi-Threading Action Required"),
              hs_task_body |-> dynamicNotes,
              hs_task_status |-> "NOT_STARTED",
              hs_task_type |-> ParamOr(ValueOf(params), "taskType", "TODO"),
              hs_task_priority |-> ParamOr(ValueOf(params), "priority", "MEDIUM"),
              hs_timestamp |->
                nowMinutes + ParamOr(ValueOf(params), "dueInDays", 3) * DayMinutes],
           associations |-> <<dealData.dealId>>,
           ownerId |-> ParamOr(ValueOf(params), "ownerId", "")])

\* the message is kept as its template and the values the template prints
generateNotificationPayload(params, dealData, scoreData) ==
  IF IsNull(params) THEN Thrown(DestructureError("notificationType"))
  ELSE
    LET notificationType == ParamOr(ValueOf(params), "notificationType", "DEAL_ALERT")
        customMessage == ParamOr(ValueOf(params), "customMessage", "")
        message ==
          IF customMessage # "" THEN [text |-> customMessage]
          ELSE CASE notificationType = "SCORE_BELOW_THRESHOLD" ->
                      [template |-> "SCORE_BELOW_THRESHOLD",
                       overallScore |-> scoreData.overallScore,
                       riskLevel |-> scoreData.riskLevel]
                 [] notificationType = "MISSING_ROLE" ->
                      [template |-> "MISSING_ROLE",
                       missingKeyRoles |-> scoreData.missingKeyRoles]
                 [] notificationType = "SINGLE_THREADED" ->
                      [template |-> "SINGLE_THREADED",
                       contactCount |-> scoreData.contactCount]
                 [] OTHER ->
                      [template |-> "default", overallScore |-> scoreData.overallScore]
    IN  Returned(
          [recipientType |-> ParamOr(ValueOf(params), "recipientType", "DEAL_OWNER"),
           notificationType |-> notificationType,
           message |-> message,
           dealId |-> dealData.dealId,
           score |-> scoreData.overallScore,
           riskLevel |-> scoreData.riskLevel])

\* the switch of handleWorkflowAction, given the score data computed before it
workflowActionBody(actionType, params, dealData, scoreData, nowMinutes) ==
      CASE actionType = WORKFLOW_ACTIONS.CHECK_SCORE_THRESHOLD ->
             handleScoreThresholdCheck(params, dealData)
        [] actionType = WORKFLOW_ACTIONS.CHECK_ROLE_COVERAGE ->
             handleRoleCoverageCheck(params, dealData)
        [] actionType = WORKFLOW_ACTIONS.CHECK_STAKEHOLDER_COUNT ->
             handleStakeholderCountCheck(params, dealData)
        [] actionType = WORKFLOW_ACTIONS.CREATE_TASK ->
             LET payload == generateTaskPayload(params, dealData, scoreData, nowMinutes)
             IN  IF payload.completion = "throw" THEN payload
                 ELSE Returned([result |-> ACTION_RESULTS.ACTION_COMPLETED,
                                taskPayload |-> payload.value])
        [] actionType = WORKFLOW_ACTIONS.NOTIFY_ON_CONDITION ->
             LET payload == generateNotificationPayload(params, dealData, scoreData)
             IN  IF payload.completion = "throw" THEN payload
                 ELSE Returned([result |-> ACTION_RESULTS.ACTION_COMPLETED,
                                notification |-> payload.value])
        [] actionType = WORKFLOW_ACTIONS.RECALCULATE_SCORE ->
             LET coverageAnalysis ==
                   calculateCoverageAnalysis(dealData.contacts,
                                             [dealStage |-> dealData.deal.dealstage],
                                             nowMinutes)
             IN  Returned(
                   [result |-> ACTION_RESULTS.ACTION_COMPLETED,
                    outputFields |->
                      [overall_score |-> scoreData.overallScore,
                       engagement_score |-> scoreData.engagementScore,
                       participation_score |-> scoreData.participationScore,
                       role_coverage_score |-> scoreData.roleCoverageScore,
                       breadth_score |-> coverageAnalysis.breadth.breadthScore,
                       depth_score |-> coverageAnalysis.depth.overallDepthScore,
                       coverage_score |-> coverageAnalysis.coverageScore,
                       risk_level |-> scoreData.riskLevel,
                       thread_depth |-> scoreData.threadDepth,
                       contact_count |-> scoreData.contactCount,
                       covered_roles |-> scoreData.coveredRoles,
                       missing_roles |-> scoreData.missingKeyRoles]])
        [] actionType = WORKFLOW_ACTIONS.UPDATE_DEAL_PROPERTY ->
             Returned(
               [result |-> ACTION_RESULTS.ACTION_COMPLETED,
                propertyUpdates |->
                  [multi_thread_score |-> scoreData.overallScore,
                   stakeholder_count |-> scoreData.contactCount,
                   engagement_score |-> scoreData.engagementScore,
                   role_coverage_score |-> scoreData.roleCoverageScore,
                   multi_thread_risk_level |-> scoreData.riskLevel]])
        [] OTHER ->
             Returned([result |-> ACTION_RESULTS.ACTION_FAILED,
                       error |-> "Unknown action type: " \o actionType])

\* catch (error) { return { result: ACTION_FAILED, error: error.message } }
Caught(body) ==
  IF body.completion = "throw"
    THEN Returned([result |-> ACTION_RESULTS.ACTION_FAILED, error |-> body.message])
  ELSE body

\* handleWorkflowAction without its catch clause
handleWorkflowActionUncaught(actionType, params, dealData, nowMinutes) ==
  workflowActionBody(actionType, params, dealData,
                     calculateMultiThreadingScore(dealData.contacts), nowMinutes)

handleWorkflowAction(actionType, params, dealData, nowMinutes) ==
  Caught(workflowActionBody(actionType, params, dealData,
                            calculateMultiThreadingScore(dealData.contacts), nowMinutes))

\* bound of the contact list of a deal a workflow runs on
MaxWorkflowContacts == 2

WorkflowActionTypes ==
  {WORKFLOW_ACTIONS[k] : k \in DOMAIN WORKFLOW_ACTIONS} \cup {"send_email"}

EmptyParams == [property \in {} |-> ""]

WorkflowParams ==
  {<<>>, <<EmptyParams>>,
   <<[threshold |-> 50, comparison |-> "GREATER_THAN_OR_EQUAL"]>>,
   <<[threshold |-> 4, comparison |-> "EQUALS"]>>,
   <<[threshold |-> 50, comparison |-> "BETWEEN"]>>,
   <<[role |-> "champion", engagementThreshold |-> 20]>>,
   <<[minCount |-> 2, countEngagedOnly |-> TRUE]>>,
   <<[notes |-> "Introduce the CFO", dueInDays |-> 1]>>,
   <<[notificationType |-> "MISSING_ROLE"]>>,
   <<[customMessage |-> "Single contact on the deal"]>>}

\* getDealWithContacts: { deal, dealId, contacts }
WorkflowDeals ==
  UNION {{[deal |-> [dealstage |-> "contractsent"],
           dealId |-> "9001",
           contacts |-> [i \in 1..n |-> Contact(ContactId(i), roles[i], counts[i])]] :
            roles \in [1..n -> {"", "DECISION_MAKER", "champion"}],
            counts \in [1..n -> {<<0, 0, 0>>, <<4, 2, 0>>}]} :
         n \in 0..MaxWorkflowContacts}

WorkflowCalls ==
  {[op |-> "handleWorkflowAction", actionType |-> t, params |-> p, dealData |-> d,
    clock |-> CoverageNow] :
     t \in WorkflowActionTypes, p \in WorkflowParams, d \in WorkflowDeals}

InitWorkflow ==
  /\ alertHistory = [k \in Keys |-> 0]
  /\ now = TickMinutes * 60 * 1000
  /\ procs = [p \in Procs |-> IdleProc]
  /\ posted = {}
  /\ call \in WorkflowCalls
  /\ ret = NoRet

HandleWorkflowAction ==
  /\ call.op = "handleWorkflowAction"
  /\ ret = NoRet
  /\ ret' = handleWorkflowAction(call.actionType, call.params, call.dealData, call.clock)
  /\ UNCHANGED <<alertHistory, now, procs, posted, call>>

NextWorkflow == HandleWorkflowAction

SpecWorkflow == InitWorkflow /\ [][NextWorkflow]_vars

(***************************************************************************)
(* roleInferenceService: the batch operation, and the scoring and the      *)
(* coverage analysis of the contacts it has decorated.                     *)
(***************************************************************************)
\* { ...contact, inferredRole, effectiveRole, roleConfidence, roleSource }
inferRolesForContacts(contacts, options) ==
  [i \in DOMAIN contacts |->
     LET roleInference == inferContactRole(contacts[i], options)
     IN  [inferredRole |-> roleInference,
          effectiveRole |-> roleInference.role,
          roleConfidence |-> roleInference.confidence,
          roleSource |-> roleInference.source] @@ contacts[i]]

\* bound of the contact list that is decorated
MaxInferredContacts == 2

\* getContactWithEngagement: { id, properties, engagements }, with the job
\* title among the properties
TitledContact(id, role, jobTitle, counts) ==
  [id |-> id,
   properties |-> [hs_buying_role |-> role, jobtitle |-> jobTitle],
   engagements |-> getContactEngagements(counts[1], counts[2], counts[3])]

InferenceOptions ==
  [engagementTiming |-> [firstEngagementWeek |-> "", meetingStage |-> ""],
   textSources |-> <<>>]

InferenceCalls ==
  UNION {{[op |-> "inferRolesForContacts",
           contacts |-> [i \in 1..n |->
                           TitledContact(ContactId(i), roles[i], titles[i], counts[i])],
           options |-> InferenceOptions,
           dealStage |-> stage] :
            roles \in [1..n -> {"", "CHAMPION"}],
            titles \in [1..n -> {"", "CEO", "Chief Financial Officer"}],
            counts \in [1..n -> {<<0, 0, 0>>, <<4, 2, 0>>}],
            stage \in {"", "contractsent"}} :
         n \in 0..MaxInferredContacts}

InitInference ==
  /\ alertHistory = [k \in Keys |-> 0]
  /\ now = TickMinutes * 60 * 1000
  /\ procs = [p \in Procs |-> IdleProc]
  /\ posted = {}
  /\ call \in InferenceCalls
  /\ ret = NoRet

InferRolesForContacts ==
  /\ call.op = "inferRolesForContacts"
  /\ ret = NoRet
  /\ ret' = [op |-> "decorated",
             contacts |-> inferRolesForContacts(call.contacts, call.options)]
  /\ UNCHANGED <<alertHistory, now, procs, posted, call>>

\* the Scoring Engine on the decorated contacts
ScoreDecoratedContacts ==
  /\ ret.op = "decorated"
  /\ ret' = [op |-> "scored",
             contacts |-> ret.contacts,
             scoreData |-> calculateMultiThreadingScore(ret.contacts)]
  /\ UNCHANGED <<alertHistory, now, procs, posted, call>>

\* the Coverage Analyzer on the same contacts
CoverDecoratedContacts ==
  /\ ret.op = "scored"
  /\ ret' = [op |-> "analyzed",
             contacts |-> ret.contacts,
             scoreData |-> ret.scoreData,
             breadth |-> calculateBreadthScore(ret.contacts,
                                               [dealStage |-> call.dealStage])]
  /\ UNCHANGED <<alertHistory, now, procs, posted, call>>

NextInference ==
  \/ InferRolesForContacts
  \/ ScoreDecoratedContacts
  \/ CoverDecoratedContacts

SpecInference == InitInference /\ [][NextInference]_vars

(***************************************************************************)
(* riskPredictionService: analyzeStageVelocity.                            *)
(***************************************************************************)
STAGE_VELOCITY_BENCHMARKS ==
  [appointmentscheduled |-> [expectedDays |-> 14, maxDays |-> 30],
   qualifiedtobuy |-> [expectedDays |-> 21, maxDays |-> 45],
   presentationscheduled |-> [expectedDays |-> 14, maxDays |-> 30],
   decisionmakerboughtin |-> [expectedDays |-> 21, maxDays |-> 45],
   contractsent |-> [expectedDays |-> 14, maxDays |-> 30]]

\* new Date(hs_date_entered_currentstage): the property is <<>> when absent,
\* else <<[isNaN, time]>>, the parsed date with its time in minutes (isNaN
\* for a string that is no date)
stageEnteredAtOf(deal) ==
  IF IsNull(deal.hs_date_entered_currentstage) THEN <<>>
  ELSE IF ValueOf(deal.hs_date_entered_currentstage).isNaN THEN <<>>
  ELSE <<ValueOf(deal.hs_date_entered_currentstage).time>>

\* analyzeStageVelocity with a deal stuck from maxDays on and slowing from
\* expectedDays on
analyzeStageVelocityFromBenchmark(dealData, nowMinutes) ==
  LET currentStage == IF dealData.deal.dealstage = "" THEN "unknown"
                      ELSE dealData.deal.dealstage
      stageEnteredAt == stageEnteredAtOf(dealData.deal)
  IN  IF IsNull(stageEnteredAt)
        THEN [op |-> "stageVelocity", isStuck |-> FALSE, daysInStage |-> <<>>,
              benchmark |-> <<>>]
      ELSE
        LET daysInStage == daysSinceAt(nowMinutes, ValueOf(stageEnteredAt))
            benchmark == IF currentStage \in DOMAIN STAGE_VELOCITY_BENCHMARKS
                           THEN STAGE_VELOCITY_BENCHMARKS[currentStage]
                         ELSE [expectedDays |-> 21, maxDays |-> 45]
            isStuck == daysInStage >= benchmark.maxDays
            isSlowing == daysInStage >= benchmark.expectedDays
        IN  [op |-> "stageVelocity", isStuck |-> isStuck, isSlowing |-> isSlowing,
             daysInStage |-> <<daysInStage>>, benchmark |-> <<benchmark>>,
             currentStage |-> currentStage,
             status |-> IF isStuck THEN "STUCK"
                        ELSE IF isSlowing THEN "SLOWING" ELSE "ON_TRACK"]

\* (daysInStage and benchmark are <<>> for null)
analyzeStageVelocity(dealData, nowMinutes) ==
  LET currentStage == IF dealData.deal.dealstage = "" THEN "unknown"
                      ELSE dealData.deal.dealstage
      stageEnteredAt == stageEnteredAtOf(dealData.deal)
  IN  IF IsNull(stageEnteredAt)
        THEN [op |-> "stageVelocity", isStuck |-> FALSE, daysInStage |-> <<>>,
              benchmark |-> <<>>]
      ELSE
        LET daysInStage == daysSinceAt(nowMinutes, ValueOf(stageEnteredAt))
            benchmark == IF currentStage \in DOMAIN STAGE_VELOCITY_BENCHMARKS
                           THEN STAGE_VELOCITY_BENCHMARKS[currentStage]
                         ELSE [expectedDays |-> 21, maxDays |-> 45]
            isStuck == daysInStage > benchmark.maxDays
            isSlowing == daysInStage > benchmark.expectedDays
        IN  [op |-> "stageVelocity", isStuck |-> isStuck, isSlowing |-> isSlowing,
             daysInStage |-> <<daysInStage>>, benchmark |-> <<benchmark>>,
             currentStage |-> currentStage,
             status |-> IF isStuck THEN "STUCK"
                        ELSE IF isSlowing THEN "SLOWING" ELSE "ON_TRACK"]

\* the longest stay in a stage, in days
MaxStageDays == 46

\* the stage-entry dates: none, an unparsable one, and one every half day
\* from a day ahead of the clock back to MaxStageDays days
StageEntryDates ==
  {<<>>, <<[isNaN |-> TRUE, time |-> 0]>>}
    \cup {<<[isNaN |-> FALSE, time |-> CoverageNow - h * (DayMinutes \div 2)]>> :
            h \in (-2)..(2 * MaxStageDays)}

VelocityCalls ==
  {[op |-> "analyzeStageVelocity",
    dealData |-> [deal |-> [dealstage |-> st, hs_date_entered_currentstage |-> d]],
    clock |-> CoverageNow] :
     st \in {"", "qualifiedtobuy", "contractsent", "closedlost"},
     d \in StageEntryDates}

InitVelocity ==
  /\ alertHistory = [k \in Keys |-> 0]
  /\ now = TickMinutes * 60 * 1000
  /\ procs = [p \in Procs |-> IdleProc]
  /\ posted = {}
  /\ call \in VelocityCalls
  /\ ret = NoRet

AnalyzeStageVelocity ==
  /\ call.op = "analyzeStageVelocity"
  /\ ret = NoRet
  /\ ret' = analyzeStageVelocity(call.dealData, call.clock)
  /\ UNCHANGED <<alertHistory, now, procs, posted, call>>

NextVelocity == AnalyzeStageVelocity

SpecVelocity == InitVelocity /\ [][NextVelocity]_vars

(***************************************************************************)
(* coverageAnalysisService: calculateBreadthScore over role sets and stage *)
(* keys.                                                                   *)
(***************************************************************************)
\* the number of buying roles the contacts are drawn from
MaxBreadthRoles == 6

\* hs_buying_role values, one per contact id
BreadthRoles ==
  <<"champion", "DECISION_MAKER", "BUDGET_HOLDER", "INFLUENCER", "LEGAL",
    "END_USER", "">>

BreadthIds == <<"1", "2", "3", "4", "5", "6", "7">>

\* the contacts of the chosen ids in id order, the first one once more (under
\* another id) when repeated
BreadthContacts(chosen, repeated) ==
  LET Chosen(i) == i \in chosen
      ids == SelectSeq([i \in 1..MaxBreadthRoles |-> i], Chosen)
      list == [j \in DOMAIN ids |->
                 Contact(BreadthIds[ids[j]], BreadthRoles[ids[j]], <<0, 0, 0>>)]
  IN  IF repeated /\ Len(ids) > 0
        THEN Append(list, Contact("0", BreadthRoles[ids[1]], <<0, 0, 0>>))
      ELSE list

BreadthCalls ==
  {[op |-> "calculateBreadthScore",
    contacts |-> BreadthContacts(chosen, repeated),
    options |-> [dealStage |-> st]] :
     chosen \in SUBSET (1..MaxBreadthRoles),
     repeated \in BOOLEAN,
     st \in {"", "appointmentscheduled", "contractsent", "closedwon",
             "1234567", "constructor"}}

InitBreadth ==
  /\ alertHistory = [k \in Keys |-> 0]
  /\ now = TickMinutes * 60 * 1000
  /\ procs = [p \in Procs |-> IdleProc]
  /\ posted = {}
  /\ call \in BreadthCalls
  /\ ret = NoRet

CalculateBreadthScore ==
  /\ call.op = "calculateBreadthScore"
  /\ ret = NoRet
  /\ ret' = calculateBreadthScore(call.contacts, call.options)
  /\ UNCHANGED <<alertHistory, now, procs, posted, call>>

NextBreadth == CalculateBreadthScore

SpecBreadth == InitBreadth /\ [][NextBreadth]_vars

(***************************************************************************)
(* alertService: sendAlerts invocations that run one after another, every  *)
(* Slack POST succeeding.                                                  *)
(***************************************************************************)
\* the longest alert list of an invocation
MaxTurnAlerts == 2

\* sendAlerts(alerts, { slackWebhookUrl }) is called while no other
\* invocation is under way, with alerts of one deal (emailEnabled keeps its
\* default, false)
SendAlertsInTurn(p) ==
  /\ procs[p].pc = "idle"
  /\ \A q \in Procs \ {p} : procs[q].pc \in {"idle", "done"}
  /\ \E alerts \in SeqsUpTo({a \in AlertPool : a.dealId = "101"}, MaxTurnAlerts),
          webhook \in BOOLEAN :
       procs' = [procs EXCEPT ![p] =
                   RunLoop([IdleProc EXCEPT !.alerts = alerts, !.webhook = webhook])]
  /\ UNCHANGED <<alertHistory, now, posted, call, ret>>

NextAlertInTurn ==
  \/ \E p \in Procs : SendAlertsInTurn(p)
  \/ \E p \in Procs : AxiosPostResolves(p)
  \/ \E p \in Procs : SendAlertsResume(p)
  \/ Tick

SpecAlertInTurn == InitAlert /\ [][NextAlertInTurn]_vars

(***************************************************************************)
(* alertService: generateThreadingAlerts, and sendAlerts on its result (as *)
(* the analysis route calls them).                                         *)
(***************************************************************************)
\* (c.role || '').toUpperCase() === role || (c.effectiveRole || '').toUpperCase() === role
contactsInRole(scoreData, role) ==
  LET InRole(c) ==
        \/ ToUpperCase(c.role) = role
        \/ ("effectiveRole" \in DOMAIN c /\ ToUpperCase(c.effectiveRole) = role)
  IN  SelectSeq(scoreData.contacts, InRole)

\* one alert; about is the contact the message names ("" when none)
ThreadingAlert(type, dealId, about) == [type |-> type, dealId |-> dealId, about |-> about]

\* generateThreadingAlerts(dealData, scoreData, coverageAnalysis, lifecycleData),
\* read at the current alertHistory and instant; coverageAnalysis and
\* lifecycleData are <<>> for null, else <<value>>
generateThreadingAlerts(dealData, scoreData, coverageAnalysis, lifecycleData) ==
  LET dealId == IF dealData.dealId # "" THEN dealData.dealId
                ELSE dealData.deal.hs_object_id
      changes == IF IsNull(lifecycleData) THEN <<>> ELSE ValueOf(lifecycleData).changes
      IsNewStakeholder(c) == c.type = "NEW_STAKEHOLDER"
      IsScoreChange(c) == c.type = "SCORE_CHANGE"
      scoreChanges == SelectSeq(changes, IsScoreChange)
      championContacts == contactsInRole(scoreData, "CHAMPION")
      dmContacts == contactsInRole(scoreData, "DECISION_MAKER")
      IsCoolChampion(c) == c.engagementScore < 30
      IsColdDm(c) == c.engagementScore < 20
      AlertsAbout(type, cs) ==
        IF shouldThrottle(dealId, type) THEN <<>>
        ELSE [i \in DOMAIN cs |-> ThreadingAlert(type, dealId, cs[i].contactId)]
      singleThreaded ==
        IF scoreData.contactCount <= 1 /\ ~shouldThrottle(dealId, "SINGLE_THREADED")
          THEN <<ThreadingAlert("SINGLE_THREADED", dealId, "")>>
        ELSE <<>>
      noNewContacts ==
        IF /\ ~IsNull(lifecycleData)
           /\ Len(SelectSeq(changes, IsNewStakeholder)) = 0
           /\ ValueOf(lifecycleData).daysSinceLastSnapshot >= 14
           /\ ~shouldThrottle(dealId, "NO_NEW_CONTACTS")
          THEN <<ThreadingAlert("NO_NEW_CONTACTS", dealId, "")>>
        ELSE <<>>
      championDisengaged ==
        AlertsAbout("CHAMPION_DISENGAGED", SelectSeq(championContacts, IsCoolChampion))
      dmNotEngaged ==
        IF /\ Len(dmContacts) = 0
           /\ scoreData.contactCount > 0
           /\ ~shouldThrottle(dealId, "DM_NOT_ENGAGED")
          THEN <<ThreadingAlert("DM_NOT_ENGAGED", dealId, "")>>
        ELSE AlertsAbout("DM_NOT_ENGAGED", SelectSeq(dmContacts, IsColdDm))
      scoreDropped ==
        IF /\ Len(scoreChanges) > 0
           /\ scoreChanges[1].change <= -15
           /\ ~shouldThrottle(dealId, "SCORE_DROPPED")
          THEN <<ThreadingAlert("SCORE_DROPPED", dealId, "")>>
        ELSE <<>>
      coverageGap ==
        IF /\ ~IsNull(coverageAnalysis)
           /\ ~ValueOf(coverageAnalysis).meetsStageExpectations
           /\ ~shouldThrottle(dealId, "COVERAGE_GAP")
           /\ Len(ValueOf(coverageAnalysis).breadth.stageAnalysis.missingRequired) > 0
          THEN <<ThreadingAlert("COVERAGE_GAP", dealId, "")>>
        ELSE <<>>
  IN  [op |-> "alerts",
       alerts |-> singleThreaded \o noNewContacts \o championDisengaged
                    \o dmNotEngaged \o scoreDropped \o coverageGap]

\* bound of the contact lists alerts are generated for
MaxThreadContacts == 2

\* the contacts: a champion below and one at the threshold of 30, and a
\* decision maker below the threshold of 20
ThreadContacts ==
  {<<"champion", <<1, 0, 0>>>>, <<"champion", <<2, 1, 0>>>>,
   <<"DECISION_MAKER", <<1, 0, 0>>>>}

ThreadContactLists ==
  UNION {{[i \in 1..n |-> Contact(ContactId(i), picks[i][1], picks[i][2])] :
            picks \in [1..n -> ThreadContacts]} : n \in 0..MaxThreadContacts}

\* lifecycleData: null (as the route passes it), or a score drop of 15 over
\* a fortnight without new stakeholder
ThreadLifecycles ==
  {<<>>,
   <<[changes |-> <<[type |-> "SCORE_CHANGE", change |-> -15]>>,
      daysSinceLastSnapshot |-> 14]>>}

ThreadingCalls ==
  {[op |-> "generateThreadingAlerts",
    dealData |-> [dealId |-> "101", deal |-> [hs_object_id |-> "101"]],
    scoreData |-> calculateMultiThreadingScore(contacts),
    coverageAnalysis |->
      IF covered
        THEN <<calculateCoverageAnalysis(contacts, [dealStage |-> "contractsent"],
                                         CoverageNow)>>
      ELSE <<>>,
    lifecycleData |-> lifecycle] :
     contacts \in ThreadContactLists, covered \in BOOLEAN, lifecycle \in ThreadLifecycles}

InitThreading ==
  /\ alertHistory = [k \in Keys |-> 0]
  /\ now = TickMinutes * 60 * 1000
  /\ procs = [p \in Procs |-> IdleProc]
  /\ posted = {}
  /\ call \in ThreadingCalls
  /\ ret = NoRet

\* the route calls generateThreadingAlerts (no request is sending)
GenerateThreadingAlerts ==
  /\ call.op = "generateThreadingAlerts"
  /\ procs["req1"].pc \in {"idle", "done"}
  /\ ret' = generateThreadingAlerts(call.dealData, call.scoreData,
                                    call.coverageAnalysis, call.lifecycleData)
  /\ UNCHANGED <<alertHistory, now, procs, posted, call>>

\* the route calls sendAlerts(alerts, { slackWebhookUrl }) on the alerts
\* generated
SendThreadingAlerts ==
  /\ ret # NoRet
  /\ Len(ret.alerts) > 0
  /\ procs["req1"].pc = "idle"
  /\ \E webhook \in BOOLEAN :
       procs' = [procs EXCEPT !["req1"] =
                   RunLoop([IdleProc EXCEPT !.alerts = ret.alerts, !.webhook = webhook])]
  /\ UNCHANGED <<alertHistory, now, posted, call, ret>>

NextThreading ==
  \/ GenerateThreadingAlerts
  \/ SendThreadingAlerts
  \/ \E p \in Procs : AxiosPostResolves(p)
  \/ \E p \in Procs : AxiosPostRejects(p)
  \/ \E p \in Procs : SendAlertsResume(p)
  \/ Tick

SpecThreading == InitThreading /\ [][NextThreading]_vars

(***************************************************************************)
(* alertService: the throttle as time goes on.                             *)
(***************************************************************************)
\* the alerts sent: one of a configured type (cool-down 720 minutes) and one
\* of a type without configuration
ExpiryPool ==
  {[dealId |-> "101", type |-> t] : t \in {"DM_NOT_ENGAGED", "CHAMPION_COOLING"}}

\* sendAlerts([alert], { slackWebhookUrl }) is called
SendAlertsOfAnyType(p) ==
  /\ procs[p].pc = "idle"
  /\ \E alert \in ExpiryPool :
       procs' = [procs EXCEPT ![p] =
                   RunLoop([IdleProc EXCEPT !.alerts = <<alert>>, !.webhook = TRUE])]
  /\ UNCHANGED <<alertHistory, now, posted, call, ret>>

\* time passes: up to the last instant modelled, and beyond it for as long
\* as a key is throttled
TimePasses ==
  /\ \/ now < (MaxTicks + 1) * TickMinutes * 60 * 1000
     \/ \E a \in ExpiryPool : shouldThrottle(a.dealId, a.type)
  /\ now' = now + TickMinutes * 60 * 1000
  /\ UNCHANGED <<alertHistory, procs, posted, call, ret>>

NextExpiry ==
  \/ \E p \in Procs : SendAlertsOfAnyType(p)
  \/ \E p \in Procs : AxiosPostResolves(p)
  \/ \E p \in Procs : AxiosPostRejects(p)
  \/ \E p \in Procs : SendAlertsResume(p)
  \/ TimePasses

\* the clock (Date.now()) never stops
SpecExpiry == InitAlert /\ [][NextExpiry]_vars /\ WF_vars(TimePasses)

(***************************************************************************)
(* scoringService: a deal with one contact, scored and given its           *)
(* recommendations (as the CRM card does).                                 *)
(***************************************************************************)
\* hs_buying_role of the single contact: every role with a weight, in upper
\* and lower case, one unknown to the table, and none
SingleContactRoles ==
  {"", "DECISION_MAKER", "BUDGET_HOLDER", "CHAMPION", "INFLUENCER", "END_USER",
   "BLOCKER", "OTHER", "decision_maker", "LEGAL"}

InitSingleContact ==
  /\ alertHistory = [k \in Keys |-> 0]
  /\ now = TickMinutes * 60 * 1000
  /\ procs = [p \in Procs |-> IdleProc]
  /\ posted = {}
  /\ call \in {[op |-> "calculateMultiThreadingScore",
                contacts |-> <<Contact(ContactId(1), role, <<e, m, c>>)>>] :
                 role \in SingleContactRoles,
                 e \in 0..MaxCount, m \in 0..MaxCount, c \in 0..MaxCount}
  /\ ret = NoRet

\* generateRecommendations(scoreData) on the score just calculated
RecommendForScore ==
  /\ ret # NoRet
  /\ ret.op = "snapshot"
  /\ ret' = [op |-> "recommended", scoreData |-> ret,
             recommendations |-> generateRecommendations(ret)]
  /\ UNCHANGED <<alertHistory, now, procs, posted, call>>

NextSingleContact ==
  \/ CalculateMultiThreadingScore
  \/ RecommendForScore

SpecSingleContact == InitSingleContact /\ [][NextSingleContact]_vars

(***************************************************************************)
(* Properties of the alert throttle (SpecAlert).                           *)
(***************************************************************************)
\* the sends recorded so far for (dealId, alertType): recordAlertSent runs
\* exactly when a Slack POST resolves, which is when `posted` grows
RecordedFor(dealId, alertType) ==
  {e \in posted : e.dealId = dealId /\ e.type = alertType}

\* the cool-down the configuration table gives the type, in milliseconds
ConfiguredCooldownMs(alertType) == ALERT_CONFIGS[alertType] * 60 * 1000

\* C1: for every (dealId, alertType), shouldThrottle is false as long as no
\* send has been recorded for that key, and after a recorded send it is true
\* at every instant closer to the recorded timestamp than the type's
\* configured cool-down.
C1_ThrottleContract ==
  \A d \in Deals, t \in AlertTypes :
    /\ RecordedFor(d, t) = {} => ~shouldThrottle(d, t)
    /\ \A e \in RecordedFor(d, t) :
         (now >= e.at /\ now - e.at < ConfiguredCooldownMs(t)) => shouldThrottle(d, t)

\* a send was recorded, time has passed, and the key is still inside its window
C1_Witness ==
  \E e \in posted :
    /\ now > e.at
    /\ now - e.at < ConfiguredCooldownMs(e.type)
    /\ shouldThrottle(e.dealId, e.type)

\* C2: under any interleaving of concurrent sendAlerts invocations, at most
\* one alert of a given (dealId, alertType) is delivered to Slack within that
\* type's cool-down window.
C2_OneDeliveryPerWindow ==
  \A e1, e2 \in posted :
    (e1 # e2 /\ e1.dealId = e2.dealId /\ e1.type = e2.type)
      => (e1.at - e2.at >= ConfiguredCooldownMs(e1.type)
          \/ e2.at - e1.at >= ConfiguredCooldownMs(e1.type))

Scored == call.op = "calculateMultiThreadingScore" /\ ret # NoRet

\* C4: for every contact list the overall score lies in 0..100, and the empty
\* list scores 0 with contactCount 0 and riskLevel HIGH.
C4_OverallScoreRange ==
  Scored =>
    /\ 0 <= ret.overallScore /\ ret.overallScore <= 100
    /\ call.contacts = <<>> =>
         (ret.overallScore = 0 /\ ret.contactCount = 0 /\ ret.riskLevel = "HIGH")

\* a non-empty list reaches the upper end of the range
C4_Witness == Scored /\ call.contacts # <<>> /\ ret.overallScore = 100

\* four contacts holding the four roles, each with meetings >= 2 and emails >= 4
IsWellThreaded(contacts) ==
  /\ Len(contacts) = 4
  /\ {contacts[i].properties.hs_buying_role : i \in DOMAIN contacts} = FourRoles
  /\ \A i \in DOMAIN contacts :
       contacts[i].engagements.meetings >= 2 /\ contacts[i].engagements.emails >= 4

\* C10: four contacts with the explicit roles decision maker, budget holder,
\* champion and end user, each with meetings >= 2 and emails >= 4, score at
\* least 60 overall and miss no key role.
C10_WellThreadedDeal ==
  (Scored /\ IsWellThreaded(call.contacts)) =>
    (ret.overallScore >= 60 /\ ret.missingKeyRoles = <<>>)

\* such a deal has been scored, with every contact at the claim's minimum
C10_Witness ==
  /\ Scored /\ IsWellThreaded(call.contacts)
  /\ \A i \in DOMAIN call.contacts :
       /\ call.contacts[i].engagements.meetings = 2
       /\ call.contacts[i].engagements.emails = 4
       /\ call.contacts[i].engagements.calls = 0

(***************************************************************************)
(* Properties of the lifecycle tracker (SpecLifecycle).                    *)
(***************************************************************************)
Tracked ==
  call.op = "trackStakeholderLifecycle" /\ ret # NoRet /\ call.previous # NoSnapshot

\* the stable identifier of a snapshot contact: its contact id, else its email
IdentityOf(contact) == IF contact.contactId # "" THEN contact.contactId ELSE contact.email

IdentitiesIn(snapshot) == {IdentityOf(snapshot.contacts[i]) : i \in DOMAIN snapshot.contacts}

ChangesOf(contactId, types) ==
  {i \in DOMAIN ret.changes :
     /\ ret.changes[i].type \in types
     /\ ret.changes[i].type \notin {"SCORE_CHANGE", "DEPTH_CHANGE"}
     /\ ret.changes[i].contactId = contactId}

EngagementChangeTypes == {"ENGAGEMENT_DECREASED", "ENGAGEMENT_INCREASED", "NEW_STAKEHOLDER"}

\* C5: with a previous snapshot, every contact present in previous and absent
\* from current is reported as exactly one STAKEHOLDER_REMOVED change, and no
\* contact is reported both as removed and as decreased, increased or new.
C5_RemovedExactlyOnce ==
  Tracked =>
    /\ \A k \in IdentitiesIn(call.previous) \ IdentitiesIn(call.current) :
         Cardinality(ChangesOf(k, {"STAKEHOLDER_REMOVED"})) = 1
    /\ \A k \in IdentitiesIn(call.previous) \cup IdentitiesIn(call.current) :
         ChangesOf(k, {"STAKEHOLDER_REMOVED"}) = {}
           \/ ChangesOf(k, EngagementChangeTypes) = {}

\* one contact has left the deal while another one's engagement dropped
C5_Witness ==
  /\ Tracked
  /\ \E k \in IdentitiesIn(call.previous) \ IdentitiesIn(call.current) :
       ChangesOf(k, {"STAKEHOLDER_REMOVED"}) # {}
  /\ \E k \in IdentitiesIn(call.previous) \cap IdentitiesIn(call.current) :
       ChangesOf(k, {"ENGAGEMENT_DECREASED"}) # {}

(***************************************************************************)
(* Properties of role inference (SpecRole).                                *)
(***************************************************************************)
RoleInferred == call.op = "inferContactRole" /\ ret # NoRet

\* the values of hs_buying_role that stand for "no role given"
PlaceholderRoles == {"OTHER", "Not specified"}

\* C6: whenever hs_buying_role is present and not a placeholder, the result is
\* that role (in upper case) with confidence 100 and source "explicit",
\* whatever the job title, the engagement counters, the timing data and the
\* text sources are.
C6_ExplicitRoleWins ==
  (/\ RoleInferred
   /\ call.contact.properties.hs_buying_role # ""
   /\ call.contact.properties.hs_buying_role \notin PlaceholderRoles)
    => /\ ret.role = ToUpperCase(call.contact.properties.hs_buying_role)
       /\ ret.confidence = 100
       /\ ret.source = "explicit"

\* an explicit decision maker with a junior title, email-heavy behaviour and
\* advocacy language, all of which point to other roles
C6_Witness ==
  /\ RoleInferred
  /\ call.contact.properties.hs_buying_role = "DECISION_MAKER"
  /\ call.contact.properties.jobtitle = "Junior Assistant"
  /\ call.contact.engagements.emails >= 5
  /\ call.options.textSources = <<"We love it and I recommend it">>
  /\ ret.role = "DECISION_MAKER"

(***************************************************************************)
(* Properties of risk prediction (SpecRisk).                               *)
(***************************************************************************)
DealRiskPredicted == call.op = "predictDealRisk" /\ ret # NoRet
ChampionChurnPredicted == call.op = "predictChampionChurn" /\ ret # NoRet
EconomicBuyerRiskPredicted == call.op = "predictEconomicBuyerRisk" /\ ret # NoRet

SubModelLevels ==
  <<ret.riskBreakdown.champion.churnRisk, ret.riskBreakdown.economicBuyer.riskLevel,
    ret.riskBreakdown.meetingProgression.riskLevel>>

ActionNames == <<"Champion at risk", "Economic buyer gap", "Deal stalled">>

\* the positions (1 champion, 2 economic buyer, 3 meeting) of the sub-models at HIGH
HighSubModels == {i \in 1..3 : SubModelLevels[i] = "HIGH"}

\* C7: the composite is round(0.35 champion + 0.35 economic buyer + 0.30
\* meeting); the deal is HIGH if the composite is at least 50 or a sub-model
\* is HIGH, else MEDIUM from 25, LOW above 0, else HEALTHY; priorityActions
\* holds exactly the sub-models at HIGH, in the order champion, economic
\* buyer, meeting.
C7_CompositeRisk ==
  DealRiskPredicted =>
    LET c == ret.riskBreakdown.champion.riskScore
        e == ret.riskBreakdown.economicBuyer.riskScore
        m == ret.riskBreakdown.meetingProgression.riskScore
        composite == ret.compositeRiskScore
        actions == ret.priorityActions
    IN  /\ 200 * composite <= 70 * c + 70 * e + 60 * m + 100
        /\ 200 * composite > 70 * c + 70 * e + 60 * m - 100
        /\ ret.overallRiskLevel =
             (IF composite >= 50 \/ HighSubModels # {} THEN "HIGH"
              ELSE IF composite >= 25 THEN "MEDIUM"
              ELSE IF composite > 0 THEN "LOW"
              ELSE "HEALTHY")
        /\ Len(actions) = Cardinality(HighSubModels)
        /\ \A i \in DOMAIN actions :
             /\ actions[i].priority \in HighSubModels
             /\ actions[i].action = ActionNames[actions[i].priority]
             /\ \A j \in DOMAIN actions : i < j => actions[i].priority < actions[j].priority

\* a deal whose composite is below 50 and which is HIGH through one sub-model
C7_Witness ==
  /\ DealRiskPredicted
  /\ ret.compositeRiskScore < 50
  /\ ret.compositeRiskScore > 0
  /\ ret.overallRiskLevel = "HIGH"
  /\ Len(ret.priorityActions) = 2

\* C8: for a champion, responseRate < 0.3 with at least 2 missed meetings and
\* at least 14 days since the last contact gives churnRisk HIGH with a risk
\* score of at least 70; without a champion the result is UNKNOWN with score 0.
C8_ChampionChurn ==
  ChampionChurnPredicted =>
    LET h == call.engagementHistory
    IN  /\ (/\ call.champion # NoChampion
            /\ ~IsNull(h.responseRate) /\ ValueOf(h.responseRate) < 30
            /\ h.missedMeetings >= 2
            /\ ~IsNull(h.daysSinceLastContact) /\ ValueOf(h.daysSinceLastContact) >= 14)
             => ret.churnRisk = "HIGH" /\ ret.riskScore >= 70
        /\ call.champion = NoChampion => ret.churnRisk = "UNKNOWN" /\ ret.riskScore = 0

\* the three factors fire and the engagement drop does not: the score is 70
C8_Witness ==
  /\ ChampionChurnPredicted
  /\ call.champion # NoChampion
  /\ call.engagementHistory.responseRate = <<20>>
  /\ call.engagementHistory.missedMeetings = 2
  /\ call.engagementHistory.daysSinceLastContact = <<14>>
  /\ ret.riskScore = 70
  /\ ret.churnRisk = "HIGH"

\* the penalty the claim gives for a stage
StagePenalty(dealStage) ==
  CASE dealStage = "presentationscheduled" -> 15
    [] dealStage = "decisionmakerboughtin" -> 40
    [] dealStage = "contractsent"          -> 60
    [] OTHER                               -> 0

Recommended == call.op = "generateRecommendations" /\ ret # NoRet

PriorityRank(priority) ==
  CASE priority = "HIGH" -> 0 [] priority = "MEDIUM" -> 1 [] OTHER -> 2

\* the order in which generateRecommendations emits its items
EmissionOrder ==
  <<"SINGLE_THREAD_RISK", "MISSING_ROLES", "LOW_ENGAGEMENT", "NO_CHAMPION",
    "STRONG_POSITION", "CRITICAL_COVERAGE">>

EmissionIndex(type) == CHOOSE i \in DOMAIN EmissionOrder : EmissionOrder[i] = type

\* C11: the recommendations are ordered HIGH, MEDIUM, LOW, items of equal
\* priority in emission order; with contactCount <= 1 the first one is
\* SINGLE_THREAD_RISK.
C11_RecommendationOrder ==
  Recommended =>
    LET items == ret.value
    IN  /\ \A i, j \in DOMAIN items :
             i < j => \/ PriorityRank(items[i].priority) < PriorityRank(items[j].priority)
                      \/ /\ items[i].priority = items[j].priority
                         /\ EmissionIndex(items[i].type) < EmissionIndex(items[j].type)
        /\ call.scoreData.contactCount <= 1
             => items # <<>> /\ items[1].type = "SINGLE_THREAD_RISK"

\* one contact with one email and no role: HIGH risk, and three HIGH items of
\* which SINGLE_THREAD_RISK comes first
C11_Witness ==
  /\ Recommended
  /\ call.scoreData.contactCount = 1
  /\ call.scoreData.riskLevel = "HIGH"
  /\ call.scoreData.contacts[1].engagements.emails = 1
  /\ call.scoreData.contacts[1].role = "Not specified"
  /\ Len(ret.value) = 5
  /\ ret.value[1].type = "SINGLE_THREAD_RISK"
  /\ ret.value[3].type = "CRITICAL_COVERAGE"

RoleCoverageScored == call.op = "calculateRoleCoverageScore" /\ ret # NoRet

\* the hs_buying_role values of the contacts passed in
GivenRoles == {call.contacts[i].properties.hs_buying_role : i \in DOMAIN call.contacts}

KeyRoleSet == {"DECISION_MAKER", "BUDGET_HOLDER", "CHAMPION"}

\* C12: with at least one DECISION_MAKER, one BUDGET_HOLDER and one CHAMPION
\* among the contacts the role coverage score is at least 70 and no key role
\* is missing; in every case missingKeyRoles is exactly the key roles that are
\* not among the covered roles.
C12_RoleCoverage ==
  RoleCoverageScored =>
    /\ KeyRoleSet \subseteq GivenRoles
         => ret.value.score >= 70 /\ ret.value.missingKeyRoles = <<>>
    /\ Range(ret.value.missingKeyRoles) = KeyRoleSet \ Range(ret.value.coveredRoles)
    /\ \A i, j \in DOMAIN ret.value.missingKeyRoles :
         ret.value.missingKeyRoles[i] = ret.value.missingKeyRoles[j] => i = j

\* three contacts, one per key role, and nothing missing
C12_Witness ==
  /\ RoleCoverageScored
  /\ Len(call.contacts) = 3
  /\ KeyRoleSet \subseteq GivenRoles
  /\ ret.value.score >= 70
  /\ ret.value.missingKeyRoles = <<>>

EngagementScored == call.op = "calculateContactEngagementScore" /\ ret # NoRet

\* the counters with n engagements on one channel only
EmailsOnly(n) == [emails |-> n, meetings |-> 0, calls |-> 0, total |-> n]
CallsOnly(n) == [emails |-> 0, meetings |-> 0, calls |-> n, total |-> n]
MeetingsOnly(n) == [emails |-> 0, meetings |-> n, calls |-> 0, total |-> n]

\* C13: the engagement score never decreases when emails, meetings or calls
\* grow, never exceeds 100, and for an equal count n the meetings-only score
\* is at least the calls-only score, which is at least the emails-only score.
C13_EngagementMonotone ==
  EngagementScored =>
    LET e == call.engagements
    IN  /\ ret.value <= 100
        /\ \A f \in EngagementCounters :
             (f.emails >= e.emails /\ f.meetings >= e.meetings /\ f.calls >= e.calls)
               => calculateContactEngagementScore(f) >= ret.value
        /\ e = EmailsOnly(e.emails)
             => /\ calculateContactEngagementScore(CallsOnly(e.emails)) >= ret.value
                /\ calculateContactEngagementScore(MeetingsOnly(e.emails))
                     >= calculateContactEngagementScore(CallsOnly(e.emails))

\* one email only scores 5, below one call (15) and one meeting (20)
C13_Witness ==
  /\ EngagementScored
  /\ call.engagements = EmailsOnly(1)
  /\ ret.value = 5
  /\ calculateContactEngagementScore(CallsOnly(1)) = 15
  /\ calculateContactEngagementScore(MeetingsOnly(1)) = 20

(***************************************************************************)
(* Properties of the coverage scores (SpecCoverage).                       *)
(***************************************************************************)
RecencyScored == call.op = "calculateRecencyScore" /\ ret # NoRet

\* the age of the last engagement in whole days (for a known date; timestamps
\* are in minutes)
AgeInDays == (call.clock - call.lastEngagementDate[1]) \div (24 * 60)

\* C14: the recency score is 100 for an age of at most 7 whole days, 80 for 8
\* to 14, 60 for 15 to 30, 40 for 31 to 60, 20 beyond 60, and 0 when the date
\* is unknown.
C14_RecencySteps ==
  RecencyScored =>
    IF call.lastEngagementDate = <<>> THEN ret.value = 0
    ELSE ret.value = (IF AgeInDays <= 7 THEN 100
                      ELSE IF AgeInDays <= 14 THEN 80
                      ELSE IF AgeInDays <= 30 THEN 60
                      ELSE IF AgeInDays <= 60 THEN 40
                      ELSE 20)

\* seven and a half days old: still seven whole days, still 100
C14_Witness ==
  /\ RecencyScored
  /\ call.lastEngagementDate # <<>>
  /\ 2 * (call.clock - call.lastEngagementDate[1]) = 15 * (24 * 60)
  /\ ret.value = 100

ChampionRated == call.op = "calculateChampionStrength" /\ ret # NoRet

\* C20: for a present champion strengthScore lies in 0..100 and the label
\* follows from the reported score: STRONG from 80, MODERATE for 60..79,
\* DEVELOPING for 40..59, WEAK below 40; without a champion the result is
\* strengthScore 0 and reliability NONE.
C20_ReliabilityFromScore ==
  ChampionRated =>
    IF call.champion = NoChampion
      THEN ret.value.strengthScore = 0 /\ ret.value.reliability = "NONE"
    ELSE /\ ret.value.strengthScore \in 0..100
         /\ ret.value.reliability =
              (IF ret.value.strengthScore >= 80 THEN "STRONG"
               ELSE IF ret.value.strengthScore >= 60 THEN "MODERATE"
               ELSE IF ret.value.strengthScore >= 40 THEN "DEVELOPING"
               ELSE "WEAK")

(***************************************************************************)
(* Further properties of the scoring engine (SpecScore).                   *)
(***************************************************************************)
\* C15: in every snapshot riskLevel is LOW exactly when overallScore >= 70,
\* MEDIUM exactly when 40 <= overallScore <= 69, HIGH exactly when
\* overallScore < 40.
C15_RiskBands ==
  Scored =>
    /\ ret.riskLevel \in {"LOW", "MEDIUM", "HIGH"}
    /\ ret.riskLevel = "LOW" <=> ret.overallScore >= 70
    /\ ret.riskLevel = "MEDIUM" <=> (40 <= ret.overallScore /\ ret.overallScore <= 69)
    /\ ret.riskLevel = "HIGH" <=> ret.overallScore < 40

\* a snapshot exactly on the lower edge of the LOW band
C15_Witness == Scored /\ ret.overallScore = 70 /\ ret.riskLevel = "LOW"

(***************************************************************************)
(* Properties of the workflow actions (SpecWorkflow).                      *)
(***************************************************************************)
WorkflowActionHandled == call.op = "handleWorkflowAction" /\ ret # NoRet

KnownActionTypes == {WORKFLOW_ACTIONS[k] : k \in DOMAIN WORKFLOW_ACTIONS}

ActionResultValues == {ACTION_RESULTS[k] : k \in DOMAIN ACTION_RESULTS}

\* the actions that destructure their params, which raises a TypeError when
\* the request carries none
ParamsReadingActions ==
  {"check_score_threshold", "check_role_coverage", "check_stakeholder_count",
   "create_task", "notify_on_condition"}

\* C16: handleWorkflowAction never throws: every call completes by returning
\* an object whose result is CONDITION_MET, CONDITION_NOT_MET,
\* ACTION_COMPLETED or ACTION_FAILED, an action type outside the known set
\* gives ACTION_FAILED with an error that names the action type, and the
\* exception of an action that reads absent params comes back as
\* ACTION_FAILED
C16_WorkflowNeverThrows ==
  WorkflowActionHandled =>
    /\ ret.completion = "return"
    /\ ret.value.result \in ActionResultValues
    /\ call.actionType \notin KnownActionTypes =>
         /\ ret.value.result = ACTION_RESULTS.ACTION_FAILED
         /\ ret.value.error = "Unknown action type: " \o call.actionType
    /\ (IsNull(call.params) /\ call.actionType \in ParamsReadingActions) =>
         ret.value.result = ACTION_RESULTS.ACTION_FAILED

\* an unknown action type was answered, and so was a call without params
C16_Witness ==
  /\ WorkflowActionHandled
  /\ call.actionType = "send_email"
  /\ ret.completion = "return"
  /\ ret.value.error = "Unknown action type: send_email"

C16_WitnessCaught ==
  /\ WorkflowActionHandled
  /\ call.actionType = WORKFLOW_ACTIONS.CREATE_TASK
  /\ IsNull(call.params)
  /\ ret.completion = "return"
  /\ ret.value.result = ACTION_RESULTS.ACTION_FAILED

(***************************************************************************)
(* Properties of the decorated contacts (SpecInference).                   *)
(***************************************************************************)
DecoratedAnalyzed == ret.op = "analyzed"

\* the decorated contacts without a buying-role property whose effective
\* role is a key role
InferredKeyContacts ==
  {i \in DOMAIN ret.contacts :
     /\ ret.contacts[i].properties.hs_buying_role = ""
     /\ ret.contacts[i].effectiveRole \in Range(KEY_ROLES)}

\* C17: a contact without a buying-role property whose effective role is a
\* key role covers that role in the Scoring Engine (the role is among
\* coveredRoles and not among missingKeyRoles), as it does in the grouping
\* of the Coverage Analyzer
C17_EffectiveRoleScored ==
  DecoratedAnalyzed =>
    \A i \in InferredKeyContacts :
      /\ ret.contacts[i].effectiveRole \in Range(ret.breadth.coveredRoles)
      /\ ret.contacts[i].effectiveRole \in Range(ret.scoreData.coveredRoles)
      /\ ret.contacts[i].effectiveRole \notin Range(ret.scoreData.missingKeyRoles)

\* the part of C17 the code keeps: the Coverage Analyzer groups every
\* decorated contact under its effective role
C17_EffectiveRoleCovered ==
  DecoratedAnalyzed =>
    \A i \in DOMAIN ret.contacts :
      ret.contacts[i].effectiveRole \in Range(ret.breadth.coveredRoles)

(***************************************************************************)
(* Further properties of the champion-churn sub-model (SpecRisk).          *)
(***************************************************************************)
\* the change of the champion's engagement score against the previous one
EngagementChange ==
  call.champion.engagementScore - ValueOf(call.engagementHistory.previousEngagementScore)

DecreasingEngagementAdded ==
  \E i \in DOMAIN ret.factors :
    /\ ret.factors[i].factor = "Decreasing Engagement"
    /\ ret.factors[i].riskContribution = 30

\* C18: for a champion, predictChampionChurn adds the +30 contribution of a
\* decreasing engagement exactly when a previous engagement score is given
\* and the current score minus the previous one is <= -20, a drop of exactly
\* 20 points included
C18_DropOfTwentyCounts ==
  (ChampionChurnPredicted /\ call.champion # NoChampion) =>
    (DecreasingEngagementAdded <=>
       /\ ~IsNull(call.engagementHistory.previousEngagementScore)
       /\ EngagementChange <= -20)

\* what the code does: the contribution is added exactly when the change is
\* below -20
C18_DropBelowTwentyCounts ==
  (ChampionChurnPredicted /\ call.champion # NoChampion) =>
    (DecreasingEngagementAdded <=>
       /\ ~IsNull(call.engagementHistory.previousEngagementScore)
       /\ EngagementChange < -20)

(***************************************************************************)
(* Further properties of the stakeholder lifecycle (SpecLifecycle).        *)
(***************************************************************************)
\* the contacts present in both snapshots
MatchedIdentities == IdentitiesIn(call.previous) \cap IdentitiesIn(call.current)

\* the engagement-score delta of a matched contact
EngagementDelta(contactId) ==
  MapGet(call.current.contacts, contactId).engagementScore
    - MapGet(call.previous.contacts, contactId).engagementScore

CurrentRole(contactId) == MapGet(call.current.contacts, contactId).role

CurrentScore(contactId) == MapGet(call.current.contacts, contactId).engagementScore

AlertsOf(contactId, type) ==
  {i \in DOMAIN ret.alerts :
     ret.alerts[i].type = type /\ ret.alerts[i].contactId = contactId}

\* 1 when the condition holds, else 0
Once(condition) == IF condition THEN 1 ELSE 0

\* C19: for a contact present in both snapshots, ENGAGEMENT_DECREASED is
\* reported exactly when the engagement-score delta is <= -20 and
\* ENGAGEMENT_INCREASED exactly when it is >= +20, never both and nothing in
\* between; CHAMPION_COOLING is raised exactly when the delta is <= -20 and
\* the role is CHAMPION, DM_DISENGAGED exactly when the delta is <= -20, the
\* role is DECISION_MAKER and the current score is below 30, and
\* BUDGET_HOLDER_ENGAGED exactly when the delta is >= +20 and the role is
\* BUDGET_HOLDER
C19_EngagementChangeThresholds ==
  Tracked =>
    \A k \in MatchedIdentities :
      /\ Cardinality(ChangesOf(k, {"ENGAGEMENT_DECREASED"}))
           = Once(EngagementDelta(k) <= -20)
      /\ Cardinality(ChangesOf(k, {"ENGAGEMENT_INCREASED"}))
           = Once(EngagementDelta(k) >= 20)
      /\ Cardinality(ChangesOf(k, {"ENGAGEMENT_DECREASED", "ENGAGEMENT_INCREASED"})) <= 1
      /\ Cardinality(AlertsOf(k, "CHAMPION_COOLING"))
           = Once(EngagementDelta(k) <= -20 /\ CurrentRole(k) = "CHAMPION")
      /\ Cardinality(AlertsOf(k, "DM_DISENGAGED"))
           = Once(/\ EngagementDelta(k) <= -20
                  /\ CurrentRole(k) = "DECISION_MAKER"
                  /\ CurrentScore(k) < 30)
      /\ Cardinality(AlertsOf(k, "BUDGET_HOLDER_ENGAGED"))
           = Once(EngagementDelta(k) >= 20 /\ CurrentRole(k) = "BUDGET_HOLDER")

\* a champion has dropped by exactly 20 points and a budget holder has
\* risen by exactly 20 points: both are reported, with their alerts
C19_Witness ==
  /\ Tracked
  /\ \E k \in MatchedIdentities :
       /\ EngagementDelta(k) = -20
       /\ CurrentRole(k) = "CHAMPION"
       /\ AlertsOf(k, "CHAMPION_COOLING") # {}
  /\ \E k \in MatchedIdentities :
       /\ EngagementDelta(k) = 20
       /\ CurrentRole(k) = "BUDGET_HOLDER"
       /\ AlertsOf(k, "BUDGET_HOLDER_ENGAGED") # {}

\* a decision maker has dropped by 20 points to a score of 30 or more: the
\* decrease is reported without a DM_DISENGAGED alert
C19_WitnessEngagedDecisionMaker ==
  /\ Tracked
  /\ \E k \in MatchedIdentities :
       /\ EngagementDelta(k) <= -20
       /\ CurrentRole(k) = "DECISION_MAKER"
       /\ CurrentScore(k) >= 30
       /\ ChangesOf(k, {"ENGAGEMENT_DECREASED"}) # {}
       /\ AlertsOf(k, "DM_DISENGAGED") = {}

(***************************************************************************)
(* Further properties of role inference (SpecRole).                        *)
(***************************************************************************)
\* neither the job title, nor the behaviour, nor a text source gives a role
NoSignal ==
  /\ inferRoleFromJobTitle(call.contact.properties.jobtitle).inferredRole = ""
  /\ inferRoleFromBehavior(call.contact.engagements,
                           call.options.engagementTiming).inferredRole = ""
  /\ \A i \in DOMAIN call.options.textSources :
       analyzeLanguagePatterns(call.options.textSources[i]).inferredRole = ""

\* C21: a result of inferContactRole with source 'inferred' has a confidence
\* of at most 95, so a confidence of 100 comes with source 'explicit' only;
\* without an explicit role and without a signal from the title, the
\* behaviour or the text sources the result is role OTHER with confidence 0
C21_InferredConfidenceCap ==
  RoleInferred =>
    /\ ret.source = "inferred" => ret.confidence <= 95
    /\ ret.confidence = 100 => ret.source = "explicit"
    /\ (ret.source # "explicit" /\ NoSignal) =>
         (ret.role = "OTHER" /\ ret.confidence = 0)

\* a role inferred from the job title alone, whose weighted confidence
\* exceeds 95 and is capped
C21_Witness ==
  /\ RoleInferred
  /\ ret.source = "inferred"
  /\ ret.confidence = 95
  /\ Len(ret.inferences) = 1
  /\ ret.inferences[1].source = "job_title"
  /\ ret.inferences[1].confidence * 15 > 95 * 10

\* a contact without any signal
C21_WitnessNoSignal ==
  /\ RoleInferred
  /\ ret.source = "default"
  /\ NoSignal
  /\ ret.role = "OTHER"

(***************************************************************************)
(* Properties of the stage velocity (SpecVelocity).                        *)
(***************************************************************************)
VelocityAnalyzed == call.op = "analyzeStageVelocity" /\ ret # NoRet

StageEntry == call.dealData.deal.hs_date_entered_currentstage

ValidStageEntry == ~IsNull(StageEntry) /\ ~ValueOf(StageEntry).isNaN

\* whole days between the stage entry and the clock
DaysInStage == (call.clock - ValueOf(StageEntry).time) \div DayMinutes

\* the benchmark of the claim: the table's entry, or 21/45 days
ExpectedDaysOf(stage) ==
  CASE stage \in {"appointmentscheduled", "presentationscheduled", "contractsent"} -> 14
    [] OTHER -> 21

MaxDaysOf(stage) ==
  CASE stage \in {"appointmentscheduled", "presentationscheduled", "contractsent"} -> 30
    [] OTHER -> 45

C22_WitnessInvalidDate ==
  /\ VelocityAnalyzed
  /\ ~IsNull(StageEntry)
  /\ ValueOf(StageEntry).isNaN
  /\ ret.daysInStage = <<>>

(***************************************************************************)
(* Properties of the breadth score (SpecBreadth).                          *)
(***************************************************************************)
BreadthScored == call.op = "calculateBreadthScore" /\ ret # NoRet

\* the distinct roles of the call's contacts
BreadthRolesPresent ==
  {coverageRoleOf(call.contacts[i]) : i \in DOMAIN call.contacts}

\* the entry the stage key stands for: its own, or the default one
BreadthExpectations ==
  IF call.options.dealStage \in DOMAIN STAGE_ROLE_EXPECTATIONS
    THEN STAGE_ROLE_EXPECTATIONS[call.options.dealStage]
  ELSE STAGE_ROLE_EXPECTATIONS.default

BreadthRequired == Range(BreadthExpectations.required)

BreadthDiversityBonus ==
  Min((Cardinality(BreadthRolesPresent)
         - Cardinality(BreadthRequired \cap BreadthRolesPresent)) * 5, 20)

\* the returned analysis is the one of the stage's entry
BreadthAsSpecified ==
  /\ BreadthDiversityBonus \in 0..20
  /\ ret.breadthScore \in 0..100
  /\ ret.breadthScore =
       Min(100, RoundDiv(Cardinality(BreadthRequired \cap BreadthRolesPresent) * 80
                           + BreadthDiversityBonus * Cardinality(BreadthRequired),
                         Cardinality(BreadthRequired)))
  /\ ret.stageAnalysis.requiredRoles = BreadthExpectations.required
  /\ Range(ret.stageAnalysis.coveredRequired) = BreadthRequired \cap BreadthRolesPresent
  /\ Range(ret.stageAnalysis.missingRequired) = BreadthRequired \ BreadthRolesPresent

\* C23: for every contact list and every stage key, also one absent from the
\* table, calculateBreadthScore returns (never throws), with the default
\* entry for an unknown stage, breadthScore = min(100, round(requiredCoverage
\* * 0.8 + diversityBonus)) within 0..100, diversityBonus within 0..20, and
\* missingRequired and coveredRequired partitioning the required roles
C23_BreadthNeverRaises ==
  BreadthScored => (ret.completion = "return" /\ BreadthAsSpecified)

\* the same for the stage keys that name no member inherited by the table
C23_BreadthOnOwnAndUnknownKeys ==
  (BreadthScored /\ call.options.dealStage \notin ObjectPrototypeKeys) =>
    (ret.completion = "return" /\ BreadthAsSpecified)

\* a stage key absent from the table scored by the default entry, the
\* diversity bonus at its cap
C23_WitnessUnknownStage ==
  /\ BreadthScored
  /\ call.options.dealStage = "1234567"
  /\ ret.completion = "return"
  /\ ret.stageAnalysis.requiredRoles = <<"CHAMPION">>
  /\ Cardinality(BreadthRolesPresent) = 6
  /\ ret.breadthScore = 100

\* the stage key "constructor": the call throws
C23_WitnessInheritedKey ==
  /\ BreadthScored
  /\ call.options.dealStage = "constructor"
  /\ ret.completion = "throw"

(***************************************************************************)
(* Properties of invocations in turn (SpecAlertInTurn).                    *)
(***************************************************************************)
\* alert i of invocation p went out to Slack
PostedBy(p, i) == \E e \in posted : e.by = p /\ e.idx = i

\* the alerts of invocation p that did not go out, as results entries
HeldBack(p) ==
  LET NotPosted(i) == ~PostedBy(p, i)
      held == SelectSeq([i \in DOMAIN procs[p].alerts |-> i], NotPosted)
  IN  [j \in DOMAIN held |-> Entry(procs[p].alerts[held[j]], "none")]

\* C24: when sendAlerts invocations run one after another and every Slack
\* POST succeeds, at most one alert per (dealId, alertType) is posted to
\* Slack within the type's cool-down window, also when one list holds the
\* key several times; every further alert of the key is in results.throttled
\* and is not posted.
C24_OnePostPerWindowInTurn ==
  /\ \A e1, e2 \in posted :
       (e1 # e2 /\ e1.dealId = e2.dealId /\ e1.type = e2.type)
         => (e1.at - e2.at >= ConfiguredCooldownMs(e1.type)
             \/ e2.at - e1.at >= ConfiguredCooldownMs(e1.type))
  /\ \A p \in Procs :
       (procs[p].pc = "done" /\ procs[p].webhook)
         => /\ procs[p].results.throttled = HeldBack(p)
            /\ procs[p].results.failed = <<>>

\* one list with the same key twice: the first alert posted, the second
\* throttled, and a later invocation's alert of that key throttled as well
C24_Witness ==
  \E p, q \in Procs :
    /\ p # q
    /\ procs[p].pc = "done" /\ procs[p].webhook
    /\ Len(procs[p].alerts) = 2
    /\ procs[p].alerts[1] = procs[p].alerts[2]
    /\ PostedBy(p, 1) /\ ~PostedBy(p, 2)
    /\ Len(procs[p].results.throttled) = 1
    /\ procs[q].pc = "done" /\ procs[q].webhook
    /\ procs[q].alerts = <<procs[p].alerts[1]>>
    /\ Len(procs[q].results.throttled) = 1

\* one list with the same key twice, the second alert posted once the
\* cool-down of the first has passed
C24_WitnessAfterWindow ==
  \E p \in Procs :
    /\ procs[p].pc = "done"
    /\ Len(procs[p].alerts) = 2
    /\ procs[p].alerts[1] = procs[p].alerts[2]
    /\ PostedBy(p, 1) /\ PostedBy(p, 2)

(***************************************************************************)
(* Properties of the results of sendAlerts (SpecAlert).                    *)
(***************************************************************************)
\* invocation p returns in this step
SendAlertsReturns(p) == procs[p].pc # "done" /\ procs'[p].pc = "done"

\* C25: every alert sendAlerts reports in results.sent, by Slack or by email,
\* has its send timestamp recorded when sendAlerts returns (so that
\* shouldThrottle is true for its key right then).
C25_SentIsRecorded ==
  [][\A p \in Procs :
       SendAlertsReturns(p) =>
         \A i \in DOMAIN procs'[p].results.sent :
           LET e == procs'[p].results.sent[i]
           IN  alertHistory'[AlertKey(e.dealId, e.type)] # 0]_vars

\* the same for the alerts reported as sent by Slack, throttled at the return
\* when the record is of that instant
C25_SlackSentIsRecorded ==
  [][\A p \in Procs, d \in Deals, t \in AlertTypes :
       (/\ SendAlertsReturns(p)
        /\ \E i \in DOMAIN procs'[p].results.sent :
             procs'[p].results.sent[i] = [type |-> t, dealId |-> d, channel |-> "slack"])
         => /\ alertHistory'[AlertKey(d, t)] # 0
            /\ alertHistory'[AlertKey(d, t)] = now' => shouldThrottle(d, t)']_vars

\* an invocation without webhook URL and with emailEnabled has returned: its
\* alert is reported as sent by email, and its key has no timestamp
C25_WitnessEmailOnly ==
  \E p \in Procs :
    /\ procs[p].pc = "done"
    /\ ~procs[p].webhook /\ procs[p].email
    /\ Len(procs[p].results.sent) = 1
    /\ procs[p].results.sent[1].channel = "email"
    /\ alertHistory[AlertKey(procs[p].results.sent[1].dealId,
                             procs[p].results.sent[1].type)] = 0
    /\ ~shouldThrottle(procs[p].results.sent[1].dealId, procs[p].results.sent[1].type)

(***************************************************************************)
(* Properties of alert generation (SpecThreading).                         *)
(***************************************************************************)
AlertsGenerated == call.op = "generateThreadingAlerts" /\ ret # NoRet

\* the alerts of one type in the list returned
GeneratedOfType(type) ==
  LET OfType(a) == a.type = type
  IN  SelectSeq(ret.alerts, OfType)

\* C26: one generateThreadingAlerts call returns at most one alert per alert
\* type, for every snapshot, also when several CHAMPION or DECISION_MAKER
\* contacts are below their threshold.
C26_OneAlertPerType ==
  AlertsGenerated =>
    \A type \in DOMAIN ALERT_CONFIGS : Len(GeneratedOfType(type)) <= 1

\* the types generated once per deal are at most once in the list
C26_OneAlertPerDealLevelType ==
  AlertsGenerated =>
    \A type \in DOMAIN ALERT_CONFIGS \ {"CHAMPION_DISENGAGED", "DM_NOT_ENGAGED"} :
      Len(GeneratedOfType(type)) <= 1

\* two champions below the threshold: two CHAMPION_DISENGAGED alerts of one
\* deal in one list
C26_WitnessTwoChampions ==
  /\ AlertsGenerated
  /\ Len(GeneratedOfType("CHAMPION_DISENGAGED")) = 2
  /\ GeneratedOfType("CHAMPION_DISENGAGED")[1].dealId
       = GeneratedOfType("CHAMPION_DISENGAGED")[2].dealId
  /\ GeneratedOfType("CHAMPION_DISENGAGED")[1].about
       # GeneratedOfType("CHAMPION_DISENGAGED")[2].about

\* what generateThreadingAlerts returns on the call's inputs right now
GeneratedNow ==
  generateThreadingAlerts(call.dealData, call.scoreData, call.coverageAnalysis,
                          call.lifecycleData)

\* a Slack POST of request p resolves in this step
PostResolves(p) == procs[p].pc = "post" /\ procs'[p].pc = "resume" /\ procs'[p].ok

C27_WitnessNoWebhook ==
  /\ AlertsGenerated
  /\ procs["req1"].pc = "done"
  /\ ~procs["req1"].webhook
  /\ Len(procs["req1"].alerts) > 0
  /\ \A k \in Keys : alertHistory[k] = 0

(***************************************************************************)
(* Properties of the throttle's expiry (SpecExpiry).                       *)
(***************************************************************************)
\* the cool-down of the claim: the configured one, or 60 minutes
CooldownMs(alertType) ==
  IF alertType \in DOMAIN ALERT_CONFIGS THEN ConfiguredCooldownMs(alertType)
  ELSE 60 * 60 * 1000

\* the timestamp of the last send recorded for the alert's key (0: none)
LastRecorded(a) == alertHistory[AlertKey(a.dealId, a.type)]

C28_WitnessNoConfiguration ==
  \E a \in ExpiryPool :
    /\ a.type \notin DOMAIN ALERT_CONFIGS
    /\ LastRecorded(a) = now
    /\ shouldThrottle(a.dealId, a.type)

\* the same send one tick later: sendable again, the configured type of the
\* same instant still throttled
C28_WitnessSixtyMinutes ==
  \E a, b \in ExpiryPool :
    /\ a.type \notin DOMAIN ALERT_CONFIGS
    /\ b.type \in DOMAIN ALERT_CONFIGS
    /\ LastRecorded(a) # 0
    /\ LastRecorded(a) = LastRecorded(b)
    /\ now > LastRecorded(a)
    /\ ~shouldThrottle(a.dealId, a.type)
    /\ shouldThrottle(b.dealId, b.type)

(***************************************************************************)
(* Further properties of the deal risk (SpecRisk).                         *)
(***************************************************************************)
\* the risk scores of the three sub-models
SubModelScores ==
  <<ret.riskBreakdown.champion.riskScore, ret.riskBreakdown.economicBuyer.riskScore,
    ret.riskBreakdown.meetingProgression.riskScore>>

C29_WitnessHighBelowFifty ==
  /\ DealRiskPredicted
  /\ Cardinality(HighSubModels) = 1
  /\ ret.compositeRiskScore < 25
  /\ ret.overallRiskLevel = "HIGH"
  /\ Len(ret.priorityActions) = 1

\* the smallest sub-model score alone: LOW, not HEALTHY
C29_WitnessLow ==
  /\ DealRiskPredicted
  /\ SubModelScores = <<0, 15, 0>>
  /\ ret.overallRiskLevel = "LOW"

(***************************************************************************)
(* Properties of the deal with one contact (SpecSingleContact).            *)
(***************************************************************************)
SingleContactScored ==
  /\ call.op = "calculateMultiThreadingScore"
  /\ Len(call.contacts) = 1
  /\ ret # NoRet
  /\ ret.op = "snapshot"

SingleContactRecommended ==
  /\ call.op = "calculateMultiThreadingScore"
  /\ Len(call.contacts) = 1
  /\ ret # NoRet
  /\ ret.op = "recommended"

\* the types of the recommendations returned
RecommendedTypes ==
  {ret.recommendations[i].type : i \in DOMAIN ret.recommendations}

\* C30: a deal with exactly one contact never gets riskLevel LOW: whatever
\* the contact's role and engagement counters, overallScore <= 69; its
\* recommendations never include STRONG_POSITION and always include
\* SINGLE_THREAD_RISK.
C30_SingleContactNeverLow ==
  /\ SingleContactScored =>
       (ret.overallScore <= 69 /\ ret.riskLevel # "LOW" /\ ret.contactCount = 1)
  /\ SingleContactRecommended =>
       /\ "STRONG_POSITION" \notin RecommendedTypes
       /\ "SINGLE_THREAD_RISK" \in RecommendedTypes

\* the single contact at its best: a key role, every channel at its cap;
\* the score is 69 and the risk MEDIUM
C30_Witness ==
  /\ SingleContactRecommended
  /\ ret.scoreData.overallScore = 69
  /\ ret.scoreData.engagementScore = 100
  /\ ret.scoreData.riskLevel = "MEDIUM"
  /\ "SINGLE_THREAD_RISK" \in RecommendedTypes

====
